---- MODULE Spec2Model ----
(***************************************************************************)
(* Request pipeline of @egodigital/express-controllers.                    *)
(*                                                                         *)
(* A controller method is decorated (HTTP verb decorator, Authorize),      *)
(* initControllers() binds the resulting handler chain to the router, and  *)
(* every request walks that chain: prefix middlewares (__use), route       *)
(* middlewares (use), the route authorizer, body parser and validators,    *)
(* the controller method and the response serializer.  Every element of    *)
(* the chain is wrapped by wrapHandlerForController().                     *)
(*                                                                         *)
(* JavaScript runs one task at a time: an action of this module is one     *)
(* task, that is the code between two awaits.  A call of next() runs the   *)
(* synchronous part of the following handler in the same task.             *)
(***************************************************************************)
EXTENDS Integers, Sequences, FiniteSets, TLC

(***************************************************************************)
(* Bounds of the model.                                                    *)
(***************************************************************************)
\* length of a list of middlewares in Controller.__use or in the 'use' option
MaxUse == 1
\* number of concerns (authorize, authorize failed, validation failed, error,
\* serializer) an application customises at route or controller level
MaxCustomised == 1
\* number of calls of the setters of the global handlers
MaxSetterCalls == 1

(***************************************************************************)
(* JavaScript values.  Every value is a record of the same shape, so that  *)
(* values of different types can be compared.  Strings are sequences of    *)
(* characters.                                                             *)
(***************************************************************************)
JSValue(t, b, s) == [t |-> t, b |-> b, s |-> s]
True == JSValue("boolean", TRUE, <<>>)
False == JSValue("boolean", FALSE, <<>>)
Null == JSValue("null", FALSE, <<>>)
Undefined == JSValue("undefined", FALSE, <<>>)
Str(s) == JSValue("string", FALSE, s)
Err(s) == JSValue("error", FALSE, s)
Obj(s) == JSValue("object", FALSE, s)
\* a regular expression, a function, a number: s is the text of toString()
RegExp(s) == JSValue("regexp", FALSE, s)
Function(s) == JSValue("function", FALSE, s)
Num(s) == JSValue("number", FALSE, s)
\* a joi schema
Joi(s) == JSValue("joi", FALSE, s)

\* a handler slot that holds no function (undefined or null)
Nil == "nil"

isNil(v) == v.t \in {"null", "undefined"}
isString(v) == v.t = "string"
isObjectLike(v) == v.t \in {"object", "joi", "regexp"}
isRegExp(v) == v.t = "regexp"
isFunction(v) == v.t = "function"
\* joi.isSchema(val)
isJoi(v) == v.t = "joi"

Whitespace == {" ", "\t", "\n"}

RECURSIVE TrimStart(_)
TrimStart(s) ==
    IF s # <<>> /\ Head(s) \in Whitespace THEN TrimStart(Tail(s)) ELSE s

RECURSIVE TrimEnd(_)
TrimEnd(s) ==
    IF s # <<>> /\ s[Len(s)] \in Whitespace
    THEN TrimEnd(SubSeq(s, 1, Len(s) - 1))
    ELSE s

\* String.prototype.trim()
trim(s) == TrimEnd(TrimStart(s))

\* !!val of a value that is neither null nor undefined
Truthy(v) ==
    CASE v.t = "boolean" -> v.b
      [] v.t = "string" -> v.s # <<>>
      [] OTHER -> TRUE

toBooleanSafe(v) == IF isNil(v) THEN FALSE ELSE Truthy(v)

\* the first non-nil slot of a precedence list, or Nil
RECURSIVE FirstNonNil(_)
FirstNonNil(slots) ==
    IF slots = <<>> THEN Nil
    ELSE IF Head(slots) # Nil THEN Head(slots)
    ELSE FirstNonNil(Tail(slots))

(***************************************************************************)
(* State.                                                                  *)
(***************************************************************************)
VARIABLES
    authorizationHandler,        \* global authorize handler
    authorizationFailedHandler,  \* global 'authorize failed' handler
    objValidateFailedHandler,    \* global 'validation failed' handler
    reqErrorHandler,             \* global request error handler
    resSerializer,               \* global response serializer
    controller,                  \* the controller instance
    VALUE,                       \* the decorated controller method
    router,                      \* the layers bound to the controller's router
    req,                         \* the requests
    setterCalls,                 \* calls of the global setters so far
    call                         \* the decorator or sort being evaluated

globals == <<authorizationHandler, authorizationFailedHandler,
             objValidateFailedHandler, reqErrorHandler, resSerializer>>
registration == <<controller, VALUE, router>>
vars == <<authorizationHandler, authorizationFailedHandler,
          objValidateFailedHandler, reqErrorHandler, resSerializer,
          controller, VALUE, router, req, setterCalls, call>>

\* no decorator and no sort is being evaluated
NoCall == [fn |-> "none", args |-> <<>>, done |-> TRUE, result |-> <<>>]

\* the handlers an application may install process-wide
GlobalHandlers == {"global"}

(***************************************************************************)
(* Decoration and registration.                                            *)
(***************************************************************************)
ObjectValidationFailedReason ==
    [NoObject |-> Str(<<"no_object">>), InvalidInput |-> Str(<<"invalid_input">>)]

\* options of a handler of the chain that is no validator
NoValidatorOptions ==
    [failedHandler |-> Nil, schema |-> Nil,
     canBeNull |-> Undefined, canBeUndefined |-> Undefined]

\* a function: the controller method, a middleware of a list, or library code
Fn(name, index) == [name |-> name, index |-> index]

\* an element of a handler chain, before it is wrapped
Handler(kind, fn, opts, skipMethod) ==
    [kind |-> kind, fn |-> fn, opts |-> opts, skipMethod |-> skipMethod]

\* body parser followed by the validating middleware
objectValidate(parser, opts, skipMethod) ==
    << Handler("parser", Fn(parser, 0), NoValidatorOptions, skipMethod),
       Handler("validator", Fn("objectValidate", 0), opts, skipMethod) >>

jsonValidate(opts, skipMethod) ==
    objectValidate("express.json",
                   [failedHandler |-> opts.failedHandler, schema |-> opts.schema,
                    canBeNull |-> Undefined, canBeUndefined |-> Undefined],
                   skipMethod)

\* method[AUTHORIZER_OPTIONS] of a method without Authorize decorator
NoAuthorizeOptions ==
    [isNil |-> TRUE, authorize |-> Nil, onAuthorizeFailed |-> Nil,
     resources |-> <<>>, roles |-> <<>>]

\* the method before any decorator has been applied
UndecoratedMethod ==
    [AUTHORIZER_OPTIONS |-> NoAuthorizeOptions,
     REQUEST_ERROR_HANDLER |-> Nil,
     RESPONSE_SERIALIZER |-> Nil,
     REQUEST_VALIDATORS |-> <<>>,
     INITIALIZE_ROUTE |-> <<>>]

\* Authorize(opts) applied to the method
Authorize(value, opts) == [value EXCEPT !.AUTHORIZER_OPTIONS = opts]

\* createRouteInitializerForMethod that replaces the validators of the
\* method by those of its own schema
createRouteInitializerForMethod_replacesValidators(value, opts, method) ==
    LET prepared ==
            IF opts.schema # Nil
            THEN jsonValidate([failedHandler |-> opts.onValidationFailed,
                               schema |-> opts.schema], method)
            ELSE value.REQUEST_VALIDATORS
    IN [value EXCEPT
           !.REQUEST_VALIDATORS = prepared,
           !.REQUEST_ERROR_HANDLER = opts.onError,
           !.RESPONSE_SERIALIZER = opts.serializer,
           !.INITIALIZE_ROUTE =
               @ \o << [method |-> method, routeMiddlewares |-> opts.use,
                        opts |-> opts] >>]

\* a HTTP verb decorator applied to the method: the validators of the schema
\* are appended, the error handler and the serializer are stored on the
\* method and a route initializer is chained behind the existing ones
createRouteInitializerForMethod(value, opts, method) ==
    LET prepared ==
            IF opts.schema # Nil
            THEN value.REQUEST_VALIDATORS \o
                 jsonValidate([failedHandler |-> opts.onValidationFailed,
                               schema |-> opts.schema], method)
            ELSE value.REQUEST_VALIDATORS
    IN [value EXCEPT
           !.REQUEST_VALIDATORS = prepared,
           !.REQUEST_ERROR_HANDLER = opts.onError,
           !.RESPONSE_SERIALIZER = opts.serializer,
           !.INITIALIZE_ROUTE =
               @ \o << [method |-> method, routeMiddlewares |-> opts.use,
                        opts |-> opts] >>]

\* wrapHandlerForController that serializes the result of every handler
wrapHandlerForController_alwaysSerializes(handler, useSerializer) ==
    [handler |-> handler, useSerializer |-> TRUE]

\* a wrapped handler: wrapHandlerForController(controller, handler, useSerializer)
wrapHandlerForController(handler, useSerializer) ==
    [handler |-> handler, useSerializer |-> useSerializer]

WrapAll(handlers, useSerializer) ==
    [i \in 1..Len(handlers) |->
        wrapHandlerForController(handlers[i], useSerializer)]

Middlewares(kind, list) ==
    [i \in 1..Len(list) |-> Handler(kind, list[i], NoValidatorOptions, Nil)]

\* RouteChain with the validators bound ahead of the authorizer
RouteChain_validatorsFirst(value, init) ==
    WrapAll(Middlewares("use", init.routeMiddlewares), FALSE)
    \o WrapAll(value.REQUEST_VALIDATORS, FALSE)
    \o WrapAll(<< Handler("authorizer", Fn("createRouteAuthorizer", 0),
                          NoValidatorOptions, Nil) >>, FALSE)
    \o << wrapHandlerForController(
              Handler("handler", Fn("VALUE", 0), NoValidatorOptions, Nil), TRUE) >>

\* RouteChain that leaves the controller method out
RouteChain_withoutMethod(value, init) ==
    WrapAll(Middlewares("use", init.routeMiddlewares), FALSE)
    \o WrapAll(<< Handler("authorizer", Fn("createRouteAuthorizer", 0),
                          NoValidatorOptions, Nil) >>, FALSE)
    \o WrapAll(value.REQUEST_VALIDATORS, FALSE)

\* the chain one route initializer binds with router[method](path, ...)
RouteChain(value, init) ==
    WrapAll(Middlewares("use", init.routeMiddlewares), FALSE)
    \o WrapAll(<< Handler("authorizer", Fn("createRouteAuthorizer", 0),
                          NoValidatorOptions, Nil) >>, FALSE)
    \o WrapAll(value.REQUEST_VALIDATORS, FALSE)
    \o << wrapHandlerForController(
              Handler("handler", Fn("VALUE", 0), NoValidatorOptions, Nil), TRUE) >>

\* the layers initControllers() adds to the router for one controller:
\* ROUTER.use(...__use), then one route per route initializer
initControllers(ctrl, value) ==
    (IF Len(ctrl.__use) > 0
     THEN << [type |-> "use", method |-> Nil,
              chain |-> WrapAll(Middlewares("__use", ctrl.__use), FALSE)] >>
     ELSE <<>>)
    \o [i \in 1..Len(value.INITIALIZE_ROUTE) |->
          [type |-> "route", method |-> value.INITIALIZE_ROUTE[i].method,
           chain |-> RouteChain(value, value.INITIALIZE_ROUTE[i])]]

\* the handlers of all layers a request with the given method runs through
RECURSIVE FlatChain(_, _)
FlatChain(layers, method) ==
    IF layers = <<>> THEN <<>>
    ELSE (IF Head(layers).type = "use" \/ Head(layers).method = method
          THEN Head(layers).chain ELSE <<>>)
         \o FlatChain(Tail(layers), method)

(***************************************************************************)
(* Requests.                                                               *)
(***************************************************************************)
\* String.prototype.toLowerCase() on the HTTP method names
toLowerCase(m) ==
    CASE m = "POST" -> "post"
      [] m = "GET" -> "get"
      [] OTHER -> m

\* normalizeString() of a request method (the names carry no whitespace)
normalizeString(m) == toLowerCase(m)

\* what the response object has been told by a built-in handler
NoJSON == [success |-> TRUE, details |-> Undefined, reason |-> Undefined]
NoResponse == [status |-> 0, body |-> <<>>, json |-> NoJSON]

NewRequest(method) ==
    [pc |-> "new", method |-> method, idx |-> 0,
     awaiting |-> Nil, who |-> Nil, outcome |-> Nil,
     body |-> Undefined, log |-> <<>>, res |-> NoResponse]

\* an entry of the history of a request
Ev(ev, idx, who, val, val2) ==
    [ev |-> ev, idx |-> idx, who |-> who, val |-> val, val2 |-> val2]

Log(rq, e) == [rq EXCEPT !.log = Append(@, e)]

\* the task ends inside a call of a user function, which settles later
Await(rq, what, who) ==
    [rq EXCEPT !.pc = "await", !.awaiting = what, !.who = who]

\* nothing of the chain is left to run for the request
Done(rq, outcome) ==
    [rq EXCEPT !.pc = "done", !.awaiting = Nil, !.who = Nil,
               !.outcome = outcome]

\* the wrapped handlers the request runs through
Chain(rq) == FlatChain(router, normalizeString(rq.method))

\* handler[REQUEST_ERROR_HANDLER] and handler[RESPONSE_SERIALIZER]: only
\* the controller method carries these properties
HandlerProperty(fn, key) == IF fn.name = "VALUE" THEN VALUE[key] ELSE Nil

getObjectValidationFailedHandler ==
    IF objValidateFailedHandler = Nil THEN "default" ELSE objValidateFailedHandler

\* getRequestErrorHandler bound when the controllers were initialised, before
\* the application had installed a handler
getRequestErrorHandler_atRegistration == "default"

getRequestErrorHandler ==
    IF reqErrorHandler = Nil THEN "default" ELSE reqErrorHandler

getResponseSerializer == resSerializer

\* the schema engine: schema.validate(BODY)
ValidObjects == {Obj(<<"valid">>)}
\* the schema "strict" requires what no body of the model carries
validate(schema, body) ==
    IF schema # "strict" /\ body \in ValidObjects
    THEN [error |-> Nil, message |-> Undefined]
    ELSE [error |-> "ValidationError",
          message |-> Str(<<"invalid:">> \o body.s)]

\* resolveErrorHandler with the controller's handler ahead of the route's
resolveErrorHandler_controllerFirst(fn) ==
    FirstNonNil(<< controller.__error,
                   HandlerProperty(fn, "REQUEST_ERROR_HANDLER"),
                   getRequestErrorHandler >>)

\* the error handler the catch block of a wrapped handler resolves
resolveErrorHandler(fn) ==
    FirstNonNil(<< HandlerProperty(fn, "REQUEST_ERROR_HANDLER"),
                   controller.__error,
                   getRequestErrorHandler >>)

\* the default handler of getRequestErrorHandler()
defaultRequestErrorHandler(res) == [res EXCEPT !.status = 500, !.body = <<>>]

\* Catch with a try block around the controller method only: the error of
\* another handler of the chain escapes
Catch_controllerMethodOnly(rq, i, e) ==
    LET errorHandler == resolveErrorHandler(Chain(rq)[i].handler.fn)
        logged == Log(rq, Ev("errorHandler", i, errorHandler, e, Undefined))
    IN IF ~Chain(rq)[i].useSerializer THEN Done(rq, "unhandled rejection")
       ELSE IF errorHandler = "default"
       THEN Done([logged EXCEPT !.res = defaultRequestErrorHandler(@)],
                 "returned")
       ELSE Await(logged, "errorHandler", errorHandler)

\* Catch that invokes no error handler and sends no response
Catch_hangs(rq, i, e) ==
    Await(Log(rq, Ev("errorHandler", i, Nil, e, Undefined)), "response", Nil)

\* catch block of wrapHandlerForController()
Catch(rq, i, e) ==
    LET errorHandler == resolveErrorHandler(Chain(rq)[i].handler.fn)
        logged == Log(rq, Ev("errorHandler", i, errorHandler, e, Undefined))
    IN IF errorHandler = "default"
       THEN Done([logged EXCEPT !.res = defaultRequestErrorHandler(@)],
                 "returned")
       ELSE Await(logged, "errorHandler", errorHandler)

\* Throw with a catch block that calls no error handler
Throw_swallowed(rq, e) ==
    Done(Log(rq, Ev("throw", rq.idx, rq.awaiting, e, Undefined)), "returned")

\* a user function throws, or its promise is rejected, inside the try block
\* of the wrapped handler the request is in
Throw(rq, e) ==
    Catch(Log(rq, Ev("throw", rq.idx, rq.awaiting, e, Undefined)), rq.idx, e)

\* resolveSerializer with the controller's serializer ahead of the route's
resolveSerializer_controllerFirst(fn) ==
    FirstNonNil(<< controller.__serialize,
                   HandlerProperty(fn, "RESPONSE_SERIALIZER"),
                   getResponseSerializer >>)

\* the serializer the try block of a wrapped handler resolves
resolveSerializer(fn) ==
    FirstNonNil(<< HandlerProperty(fn, "RESPONSE_SERIALIZER"),
                   controller.__serialize,
                   getResponseSerializer >>)

\* try block of wrapHandlerForController() after the handler has settled
\* without calling next()
Return(rq, i, HANDLER_RESULT) ==
    LET wrapped == Chain(rq)[i]
        serializer == resolveSerializer(wrapped.handler.fn)
    IN IF wrapped.useSerializer /\ serializer # Nil
       THEN Await(Log(rq, Ev("serializer", i, serializer, HANDLER_RESULT, Undefined)),
                  "serializer", serializer)
       ELSE Done(Log(rq, Ev("result", i, Nil, HANDLER_RESULT, Undefined)),
                 "returned")

RECURSIVE Enter(_, _)
RECURSIVE routeAuthorizer(_, _)
RECURSIVE objectValidator(_, _)

\* the handler calls next(): Express calls the following handler
next(rq, i) == Enter(Log(rq, Ev("next", i, Nil, Undefined, Undefined)), i + 1)

\* resolveAuthorizer with the controller's handler ahead of the decorator's
resolveAuthorizer_controllerFirst(OPTS) ==
    FirstNonNil(<< controller.__authorize, OPTS.authorize,
                   authorizationHandler >>)

\* the authorizer createRouteAuthorizer() resolves for a decorated method
resolveAuthorizer(OPTS) ==
    FirstNonNil(<< OPTS.authorize, controller.__authorize,
                   authorizationHandler >>)

\* the 'authorize failed' handler createRouteAuthorizer() resolves
resolveAuthorizeFailedHandler(OPTS) ==
    LET failedHandler ==
            FirstNonNil(<< OPTS.onAuthorizeFailed,
                           controller.__authorizeFailed,
                           authorizationFailedHandler >>)
    IN IF failedHandler = Nil THEN "default" ELSE failedHandler

\* toAuthorizeResult that takes no result for an approval
toAuthorizeResult_nilApproves(result) == IF isNil(result) THEN True ELSE result

\* the result of the authorizer as createRouteAuthorizer() continues with it
toAuthorizeResult(result) == IF isNil(result) THEN False ELSE result

\* isAuthorized without the branch for strings
isAuthorized_stringsTruthy(authorizeResult) == toBooleanSafe(authorizeResult)

isAuthorized(authorizeResult) ==
    IF isString(authorizeResult)
    THEN <<>> = trim(authorizeResult.s)
    ELSE toBooleanSafe(authorizeResult)

\* defaultAuthorizeFailedHandler as it was before 3.0.1
defaultAuthorizeFailedHandler_401(res, result) ==
    [res EXCEPT !.status = 401,
                !.body = IF isString(result) THEN trim(result.s) ELSE <<>>]

\* the default 'authorize failed' handler
defaultAuthorizeFailedHandler(res, result) ==
    [res EXCEPT !.status = 403,
                !.body = IF isString(result) THEN trim(result.s) ELSE <<>>]

\* routeAuthorizer that resolves an authorizer for an undecorated method too
routeAuthorizer_withoutDecorator(rq, i) ==
    LET OPTS == VALUE.AUTHORIZER_OPTIONS
        authorizer == resolveAuthorizer(OPTS)
    IN IF authorizer # Nil
       THEN Await(Log(rq, Ev("authorizer", i, authorizer, Undefined, Undefined)),
                  "authorizer", authorizer)
       ELSE next(rq, i)

\* the request handler createRouteAuthorizer() returns, up to its await
routeAuthorizer(rq, i) ==
    LET OPTS == VALUE.AUTHORIZER_OPTIONS
        authorizer == IF OPTS.isNil THEN Nil ELSE resolveAuthorizer(OPTS)
    IN IF authorizer # Nil
       THEN Await(Log(rq, Ev("authorizer", i, authorizer, Undefined, Undefined)),
                  "authorizer", authorizer)
       ELSE next(rq, i)

\* resolveValidationFailedHandler with the global handler ahead of the route's
resolveValidationFailedHandler_globalFirst(opts) ==
    IF objValidateFailedHandler # Nil THEN objValidateFailedHandler
    ELSE IF opts.failedHandler # Nil THEN opts.failedHandler
    ELSE "default"

\* the failed handler objectValidate() resolves
resolveValidationFailedHandler(opts) ==
    IF opts.failedHandler = Nil
    THEN getObjectValidationFailedHandler
    ELSE opts.failedHandler

\* checkBody that leaves the reason at NoObject when the schema rejects
checkBody_reasonNotUpdated(opts, BODY) ==
    IF isObjectLike(BODY) /\ opts.schema # Nil
       /\ validate(opts.schema, BODY).error = Nil
    THEN [pass |-> TRUE, reason |-> Undefined, details |-> Undefined]
    ELSE [pass |-> FALSE,
          reason |-> ObjectValidationFailedReason.NoObject,
          details |-> IF isObjectLike(BODY)
                      THEN validate(opts.schema, BODY).message
                      ELSE Undefined]

\* the checks of the validating middleware: whether the body passes, and
\* reason and details of the failure otherwise
checkBody(opts, BODY) ==
    IF BODY.t = "null" /\ toBooleanSafe(opts.canBeNull)
    THEN [pass |-> TRUE, reason |-> Undefined, details |-> Undefined]
    ELSE IF BODY.t = "undefined" /\ toBooleanSafe(opts.canBeUndefined)
    THEN [pass |-> TRUE, reason |-> Undefined, details |-> Undefined]
    ELSE IF isObjectLike(BODY)
    THEN IF opts.schema = Nil
         THEN [pass |-> TRUE, reason |-> Undefined, details |-> Undefined]
         ELSE LET JSON_VALIDATION == validate(opts.schema, BODY)
              IN IF JSON_VALIDATION.error = Nil
                 THEN [pass |-> TRUE, reason |-> Undefined,
                       details |-> Undefined]
                 ELSE [pass |-> FALSE,
                       reason |-> ObjectValidationFailedReason.InvalidInput,
                       details |-> JSON_VALIDATION.message]
    ELSE [pass |-> FALSE,
          reason |-> ObjectValidationFailedReason.NoObject,
          details |-> Undefined]

\* the default handler of getObjectValidationFailedHandler()
defaultObjectValidationFailedHandler(res, ctx) ==
    [res EXCEPT !.status = 400,
                !.json = [success |-> FALSE,
                          details |-> ctx.details,
                          reason |-> ctx.reason]]

\* objectValidator without the test of skipIf(req)
objectValidator_neverSkips(rq, i) ==
    LET h == Chain(rq)[i].handler
        failedHandler == resolveValidationFailedHandler(h.opts)
        check == checkBody(h.opts, rq.body)
        logged == Log(rq, Ev("validationFailed", i, failedHandler,
                             check.reason, check.details))
    IN IF check.pass THEN next(rq, i)
       ELSE IF failedHandler = "default"
            THEN Return([logged EXCEPT
                            !.res = defaultObjectValidationFailedHandler(@, check)],
                        i, Undefined)
            ELSE Await(logged, "validationFailed", failedHandler)

\* the validating middleware of objectValidate()
objectValidator(rq, i) ==
    LET h == Chain(rq)[i].handler
        failedHandler == resolveValidationFailedHandler(h.opts)
        check == checkBody(h.opts, rq.body)
        logged == Log(rq, Ev("validationFailed", i, failedHandler,
                             check.reason, check.details))
    IN IF h.skipMethod # normalizeString(rq.method) THEN next(rq, i)
       ELSE IF check.pass THEN next(rq, i)
       ELSE IF failedHandler = "default"
            THEN Return([logged EXCEPT
                            !.res = defaultObjectValidationFailedHandler(@, check)],
                        i, Undefined)
            ELSE Await(logged, "validationFailed", failedHandler)

\* Express calls the i-th handler of the chain: the handler runs up to its
\* first await
Enter(rq, i) ==
    IF i > Len(Chain(rq)) THEN Done([rq EXCEPT !.idx = i], "unhandled route")
    ELSE LET h == Chain(rq)[i].handler
             started == Log([rq EXCEPT !.idx = i],
                            Ev("stage", i, h.kind, Str(<<h.fn.name>>),
                               Str(<<ToString(h.fn.index)>>)))
         IN CASE h.kind \in {"__use", "use"} -> Await(started, "middleware", h.fn.name)
              [] h.kind = "authorizer" -> routeAuthorizer(started, i)
              [] h.kind = "parser" -> Await(started, "parser", h.fn.name)
              [] h.kind = "validator" -> objectValidator(started, i)
              [] h.kind = "handler" -> Await(started, "handler", h.fn.name)

(***************************************************************************)
(* Inputs: what the user functions of an application may do.               *)
(***************************************************************************)
\* values an authorize handler returns
AuthorizeResults ==
    {True, False, Null, Undefined,
     Str(<<>>), Str(<<" ">>), Str(<<" ", "denied", " ">>)}

\* values an authorize handler leaves in context.reason
Reasons == {Undefined, Str(<<"why">>)}

\* values of request.body after the body parser has run
Bodies ==
    {Null, Undefined, Str(<<"text">>), Obj(<<"bad">>), Obj(<<"valid">>)}

\* values a controller method returns
HandlerResults == {Undefined, Obj(<<"data">>)}

\* the value a response serializer returns
Serialized(v) == Obj(<<"serialized">> \o v.s)

\* the list of n middlewares
UseList(name, n) == [i \in 1..n |-> Fn(name, i)]

\* a controller or a route has no middlewares, or MaxUse of them
UseLists(name) == {UseList(name, n) : n \in {0, MaxUse}}

Controllers ==
    [__use : UseLists("__use"),
     __authorize : {Nil, "controller.__authorize"},
     __authorizeFailed : {Nil, "controller.__authorizeFailed"},
     __error : {Nil, "controller.__error"},
     __serialize : {Nil, "controller.__serialize"}]

\* options of a HTTP verb decorator; onValidationFailed has no effect
\* without a schema
RouteOptions ==
    {o \in [use : UseLists("use"),
            onError : {Nil, "opts.onError"},
            serializer : {Nil, "opts.serializer"},
            schema : {Nil, "schema"},
            onValidationFailed : {Nil, "opts.onValidationFailed"}] :
        o.schema = Nil => o.onValidationFailed = Nil}

\* options of an Authorize decorator
AuthorizeOptions ==
    [isNil : {FALSE},
     authorize : {Nil, "OPTS.authorize"},
     onAuthorizeFailed : {Nil, "OPTS.onAuthorizeFailed"},
     resources : {<<"resource">>},
     roles : {<<"role">>}]

Requests == {1}

\* the concerns for which handlers are defined at route or controller level
Customised(ctrl, opts, aopts) ==
    {c \in {"authorize", "authorizeFailed", "validationFailed", "error",
            "serializer"} :
        CASE c = "authorize" ->
                 aopts.authorize # Nil \/ ctrl.__authorize # Nil
          [] c = "authorizeFailed" ->
                 aopts.onAuthorizeFailed # Nil \/ ctrl.__authorizeFailed # Nil
          [] c = "validationFailed" -> opts.onValidationFailed # Nil
          [] c = "error" -> opts.onError # Nil \/ ctrl.__error # Nil
          [] c = "serializer" -> opts.serializer # Nil \/ ctrl.__serialize # Nil}

\* a method that carries one HTTP verb decorator and, unless aopts is
\* NoAuthorizeOptions, an Authorize decorator
Decorated(opts, aopts) ==
    LET routed == createRouteInitializerForMethod(UndecoratedMethod, opts, "post")
    IN IF aopts.isNil THEN routed ELSE Authorize(routed, aopts)

Init ==
    /\ authorizationHandler = Nil
    /\ authorizationFailedHandler = Nil
    /\ objValidateFailedHandler = Nil
    /\ reqErrorHandler = Nil
    /\ resSerializer = Nil
    /\ setterCalls = 0
    /\ call = NoCall
    /\ controller \in Controllers
    /\ \E opts \in RouteOptions,
          aopts \in AuthorizeOptions \cup {NoAuthorizeOptions} :
          /\ Cardinality(Customised(controller, opts, aopts)) <= MaxCustomised
          /\ VALUE = Decorated(opts, aopts)
    /\ router = initControllers(controller, VALUE)
    /\ req = [r \in Requests |-> NewRequest("POST")]

(***************************************************************************)
(* Operations.                                                             *)
(***************************************************************************)
Awaits(r, what) == req[r].pc = "await" /\ req[r].awaiting = what

\* Express dispatches a new request to the router
Arrive(r) ==
    /\ req[r].pc = "new"
    /\ req' = [req EXCEPT ![r] = Enter(req[r], 1)]
    /\ UNCHANGED <<globals, registration, setterCalls, call>>

\* a middleware of __use or use calls next(), ends the request itself,
\* or throws
MiddlewareSettles(r) ==
    /\ Awaits(r, "middleware")
    /\ LET rq == req[r]
           i == rq.idx
       IN \/ req' = [req EXCEPT ![r] = next(rq, i)]
          \/ req' = [req EXCEPT ![r] = Return(rq, i, Undefined)]
          \/ req' = [req EXCEPT ![r] = Throw(rq, Err(<<"middleware">>))]
    /\ UNCHANGED <<globals, registration, setterCalls, call>>

\* AuthorizerSettles with one context for all requests: the 'authorize
\* failed' handler gets the result and the reason of the authorizer that
\* has settled last before, for whatever request
AuthorizerSettles_sharedContext(r) ==
    /\ Awaits(r, "authorizer")
    /\ LET rq == req[r]
           i == rq.idx
           OPTS == VALUE.AUTHORIZER_OPTIONS
           others == {q \in DOMAIN req \ {r} :
                        \E k \in 1..Len(req[q].log) :
                           req[q].log[k].ev = "authorizer.result"}
       IN \/ req' = [req EXCEPT ![r] = Throw(rq, Err(<<"authorizer">>))]
          \/ \E result \in AuthorizeResults, ctxReason \in Reasons :
               LET shared ==
                       IF others = {} THEN [val |-> result, val2 |-> ctxReason]
                       ELSE LET q == CHOOSE q \in others : TRUE
                                k == CHOOSE k \in 1..Len(req[q].log) :
                                        req[q].log[k].ev = "authorizer.result"
                            IN req[q].log[k]
                   authorizeResult == toAuthorizeResult(shared.val)
                   settled == Log(rq, Ev("authorizer.result", i, rq.who, result,
                                         IF isAuthorized(toAuthorizeResult(result))
                                         THEN Undefined ELSE ctxReason))
                   failedHandler == resolveAuthorizeFailedHandler(OPTS)
                   failed == Log(settled,
                                 Ev("authorizeFailed", i, failedHandler,
                                    authorizeResult, shared.val2))
               IN req' = [req EXCEPT ![r] =
                     IF isAuthorized(authorizeResult) THEN next(settled, i)
                     ELSE IF failedHandler = "default"
                     THEN Return([failed EXCEPT
                                     !.res = defaultAuthorizeFailedHandler(
                                                 @, authorizeResult)],
                                 i, Undefined)
                     ELSE Await(failed, "authorizeFailed", failedHandler)]
    /\ UNCHANGED <<globals, registration, setterCalls, call>>

\* createRouteAuthorizer(): the code behind 'await authorizer(AUTHORIZE_CTX)'.
\* AUTHORIZE_CTX is a constant of the call of the request handler; the
\* history keeps the reason the authorizer has written into it when the
\* reason is read, that is when the request is not authorized
AuthorizerSettles(r) ==
    /\ Awaits(r, "authorizer")
    /\ LET rq == req[r]
           i == rq.idx
           OPTS == VALUE.AUTHORIZER_OPTIONS
       IN \/ req' = [req EXCEPT ![r] = Throw(rq, Err(<<"authorizer">>))]
          \/ \E result \in AuthorizeResults, ctxReason \in Reasons :
               LET authorizeResult == toAuthorizeResult(result)
                   settled == Log(rq, Ev("authorizer.result", i, rq.who, result,
                                         IF isAuthorized(authorizeResult)
                                         THEN Undefined ELSE ctxReason))
                   failedHandler == resolveAuthorizeFailedHandler(OPTS)
                   failed == Log(settled,
                                 Ev("authorizeFailed", i, failedHandler,
                                    authorizeResult, ctxReason))
               IN req' = [req EXCEPT ![r] =
                     IF isAuthorized(authorizeResult) THEN next(settled, i)
                     ELSE IF failedHandler = "default"
                     THEN Return([failed EXCEPT
                                     !.res = defaultAuthorizeFailedHandler(
                                                 @, authorizeResult)],
                                 i, Undefined)
                     ELSE Await(failed, "authorizeFailed", failedHandler)]
    /\ UNCHANGED <<globals, registration, setterCalls, call>>

\* a user-defined 'authorize failed' handler returns or throws
AuthorizeFailedSettles(r) ==
    /\ Awaits(r, "authorizeFailed")
    /\ LET rq == req[r]
       IN \/ req' = [req EXCEPT ![r] = Return(rq, rq.idx, Undefined)]
          \/ req' = [req EXCEPT ![r] =
                        Throw(rq, Err(<<"authorizeFailed">>))]
    /\ UNCHANGED <<globals, registration, setterCalls, call>>

\* the body parser has set request.body and calls next(), or it calls
\* next(err), which leaves the chain for the error handling of Express
ParserSettles(r) ==
    /\ Awaits(r, "parser")
    /\ LET rq == req[r]
           \* a parser of the request has run before: the body is read
           parsed == \E k \in 1..Len(rq.log) :
                         /\ rq.log[k].ev = "stage"
                         /\ rq.log[k].who = "parser"
                         /\ rq.log[k].idx < rq.idx
       IN IF parsed
          THEN req' = [req EXCEPT ![r] = next(rq, rq.idx)]
          ELSE \/ \E body \in Bodies :
                    req' = [req EXCEPT ![r] =
                               next([rq EXCEPT !.body = body], rq.idx)]
               \/ req' = [req EXCEPT ![r] = Done(rq, "next(err)")]
    /\ UNCHANGED <<globals, registration, setterCalls, call>>

\* a user-defined 'validation failed' handler returns or throws
ValidationFailedSettles(r) ==
    /\ Awaits(r, "validationFailed")
    /\ LET rq == req[r]
       IN \/ req' = [req EXCEPT ![r] = Return(rq, rq.idx, Undefined)]
          \/ req' = [req EXCEPT ![r] =
                        Throw(rq, Err(<<"validationFailed">>))]
    /\ UNCHANGED <<globals, registration, setterCalls, call>>

\* the controller method returns or throws
HandlerSettles(r) ==
    /\ Awaits(r, "handler")
    /\ LET rq == req[r]
       IN \/ \E HANDLER_RESULT \in HandlerResults :
               req' = [req EXCEPT ![r] =
                          Return(Log(rq, Ev("handler.result", rq.idx, rq.who,
                                            HANDLER_RESULT, Undefined)),
                                 rq.idx, HANDLER_RESULT)]
          \/ req' = [req EXCEPT ![r] = Throw(rq, Err(<<"handler">>))]
    /\ UNCHANGED <<globals, registration, setterCalls, call>>

\* the response serializer returns or throws
SerializerSettles(r) ==
    /\ Awaits(r, "serializer")
    /\ LET rq == req[r]
           CTX == rq.log[Len(rq.log)]
       IN \/ req' = [req EXCEPT ![r] =
                        Done(Log(rq, Ev("result", rq.idx, Nil,
                                        Serialized(CTX.val), Undefined)),
                             "returned")]
          \/ req' = [req EXCEPT ![r] = Throw(rq, Err(<<"serializer">>))]
    /\ UNCHANGED <<globals, registration, setterCalls, call>>

\* a user-defined error handler returns, or it throws: nothing catches that
ErrorHandlerSettles(r) ==
    /\ Awaits(r, "errorHandler")
    /\ LET rq == req[r]
       IN \/ req' = [req EXCEPT ![r] = Done(rq, "returned")]
          \/ req' = [req EXCEPT ![r] = Done(rq, "unhandled rejection")]
    /\ UNCHANGED <<globals, registration, setterCalls, call>>

NewHandlers == {Nil} \cup GlobalHandlers

setAuthorizeHandler(newHandler) ==
    /\ setterCalls < MaxSetterCalls
    /\ setterCalls' = setterCalls + 1
    /\ authorizationHandler' = newHandler
    /\ UNCHANGED <<authorizationFailedHandler, objValidateFailedHandler,
                   reqErrorHandler, resSerializer, registration, req,
                   call>>

setAuthorizeFailedHandler(newHandler) ==
    /\ setterCalls < MaxSetterCalls
    /\ setterCalls' = setterCalls + 1
    /\ authorizationFailedHandler' = newHandler
    /\ UNCHANGED <<authorizationHandler, objValidateFailedHandler,
                   reqErrorHandler, resSerializer, registration, req,
                   call>>

setObjectValidationFailedHandler(newHandler) ==
    /\ setterCalls < MaxSetterCalls
    /\ setterCalls' = setterCalls + 1
    /\ objValidateFailedHandler' = newHandler
    /\ UNCHANGED <<authorizationHandler, authorizationFailedHandler,
                   reqErrorHandler, resSerializer, registration, req,
                   call>>

setRequestErrorHandler(newHandler) ==
    /\ setterCalls < MaxSetterCalls
    /\ setterCalls' = setterCalls + 1
    /\ reqErrorHandler' = newHandler
    /\ UNCHANGED <<authorizationHandler, authorizationFailedHandler,
                   objValidateFailedHandler, resSerializer, registration, req,
                   call>>

setResponseSerializer(newSerializer) ==
    /\ setterCalls < MaxSetterCalls
    /\ setterCalls' = setterCalls + 1
    /\ resSerializer' = newSerializer
    /\ UNCHANGED <<authorizationHandler, authorizationFailedHandler,
                   objValidateFailedHandler, reqErrorHandler, registration, req,
                   call>>

Next ==
    \/ \E r \in Requests : Arrive(r)
    \/ \E r \in Requests : MiddlewareSettles(r)
    \/ \E r \in Requests : AuthorizerSettles(r)
    \/ \E r \in Requests : AuthorizeFailedSettles(r)
    \/ \E r \in Requests : ParserSettles(r)
    \/ \E r \in Requests : ValidationFailedSettles(r)
    \/ \E r \in Requests : HandlerSettles(r)
    \/ \E r \in Requests : SerializerSettles(r)
    \/ \E r \in Requests : ErrorHandlerSettles(r)
    \/ \E h \in NewHandlers : setAuthorizeHandler(h)
    \/ \E h \in NewHandlers : setAuthorizeFailedHandler(h)
    \/ \E h \in NewHandlers : setObjectValidationFailedHandler(h)
    \/ \E h \in NewHandlers : setRequestErrorHandler(h)
    \/ \E h \in NewHandlers : setResponseSerializer(h)

Spec == Init /\ [][Next]_vars

(***************************************************************************)
(* Setters called under traffic: the application has installed handlers at *)
(* startup, and every further call of a setter is made while a request is  *)
(* in flight, that is between two tasks of the request.                    *)
(***************************************************************************)
\* the handlers an application may have installed at startup
StartupHandlers == {"startup"}

InFlight == \E r \in Requests : req[r].pc = "await"

\* no handler is set at route or controller level, so that every resolution
\* falls through to the global level; at startup the application has called
\* at most MaxSetterCalls setters
InitInFlight ==
    /\ authorizationHandler \in {Nil} \cup StartupHandlers
    /\ authorizationFailedHandler \in {Nil} \cup StartupHandlers
    /\ objValidateFailedHandler \in {Nil} \cup StartupHandlers
    /\ reqErrorHandler \in {Nil} \cup StartupHandlers
    /\ resSerializer \in {Nil} \cup StartupHandlers
    /\ Cardinality({i \in 1..Len(globals) : globals[i] # Nil}) <= MaxSetterCalls
    /\ setterCalls = 0
    /\ call = NoCall
    /\ controller \in Controllers
    /\ \E opts \in RouteOptions,
          aopts \in AuthorizeOptions \cup {NoAuthorizeOptions} :
          /\ Customised(controller, opts, aopts) = {}
          /\ VALUE = Decorated(opts, aopts)
    /\ router = initControllers(controller, VALUE)
    /\ req = [r \in Requests |-> NewRequest("POST")]

NextInFlight ==
    \/ \E r \in Requests : Arrive(r)
    \/ \E r \in Requests : MiddlewareSettles(r)
    \/ \E r \in Requests : AuthorizerSettles(r)
    \/ \E r \in Requests : AuthorizeFailedSettles(r)
    \/ \E r \in Requests : ParserSettles(r)
    \/ \E r \in Requests : ValidationFailedSettles(r)
    \/ \E r \in Requests : HandlerSettles(r)
    \/ \E r \in Requests : SerializerSettles(r)
    \/ \E r \in Requests : ErrorHandlerSettles(r)
    \/ InFlight /\ \E h \in NewHandlers : setAuthorizeHandler(h)
    \/ InFlight /\ \E h \in NewHandlers : setAuthorizeFailedHandler(h)
    \/ InFlight /\ \E h \in NewHandlers : setObjectValidationFailedHandler(h)
    \/ InFlight /\ \E h \in NewHandlers : setRequestErrorHandler(h)
    \/ InFlight /\ \E h \in NewHandlers : setResponseSerializer(h)

SpecInFlight == InitInFlight /\ [][NextInFlight]_vars

(***************************************************************************)
(* Two decorators on one method: POST with a schema, and above it GET or   *)
(* a second POST.  The validators of each schema are kept on the method,   *)
(* and both routes bind them.  The method carries no Authorize decorator.  *)
(***************************************************************************)
Stacked(post, second, method) ==
    createRouteInitializerForMethod(
        createRouteInitializerForMethod(UndecoratedMethod, post, "post"),
        second, method)

Schemas == {"schema", "strict"}

InitStacked ==
    /\ authorizationHandler = Nil
    /\ authorizationFailedHandler = Nil
    /\ objValidateFailedHandler = Nil
    /\ reqErrorHandler = Nil
    /\ resSerializer = Nil
    /\ setterCalls = 0
    /\ call = NoCall
    /\ controller \in Controllers
    /\ \E post \in RouteOptions, second \in RouteOptions,
          method \in {"post", "get"}, s1 \in Schemas, s2 \in Schemas :
          /\ post.schema # Nil
          /\ method = "get" => second.schema = Nil
          /\ Cardinality(Customised(controller, post, NoAuthorizeOptions)
                         \cup Customised(controller, second, NoAuthorizeOptions))
                <= MaxCustomised
          /\ VALUE = Stacked([post EXCEPT !.schema = s1],
                             IF second.schema = Nil THEN second
                             ELSE [second EXCEPT !.schema = s2],
                             method)
    /\ router = initControllers(controller, VALUE)
    /\ req \in [Requests -> {NewRequest("POST"), NewRequest("GET")}]

NextStacked ==
    \/ \E r \in Requests : Arrive(r)
    \/ \E r \in Requests : MiddlewareSettles(r)
    \/ \E r \in Requests : ParserSettles(r)
    \/ \E r \in Requests : ValidationFailedSettles(r)
    \/ \E r \in Requests : HandlerSettles(r)
    \/ \E r \in Requests : SerializerSettles(r)
    \/ \E r \in Requests : ErrorHandlerSettles(r)

SpecStacked == InitStacked /\ [][NextStacked]_vars

\* a controller that defines no handler and no middleware; also: no
\* controller has been created
NoController ==
    [__use |-> <<>>, __authorize |-> Nil, __authorizeFailed |-> Nil,
     __error |-> Nil, __serialize |-> Nil]

(***************************************************************************)
(* Two requests in flight on one route, and two controllers with the same  *)
(* root path.  The controller of the route has a method with Authorize and *)
(* POST decorators that define every handler; the other controller has a   *)
(* __use middleware and a GET route.  initControllers() adds the layers of  *)
(* both controllers to the one router of the root path, in the order of    *)
(* their files.                                                            *)
(***************************************************************************)
OtherController == [NoController EXCEPT !.__use = <<Fn("other.__use", 1)>>]

InitConcurrent ==
    /\ authorizationHandler = Nil
    /\ authorizationFailedHandler = Nil
    /\ objValidateFailedHandler = Nil
    /\ reqErrorHandler = Nil
    /\ resSerializer = Nil
    /\ setterCalls = 0
    /\ call = NoCall
    /\ controller = NoController
    /\ VALUE = Decorated([use |-> <<>>, onError |-> "opts.onError",
                          serializer |-> "opts.serializer", schema |-> "schema",
                          onValidationFailed |-> "opts.onValidationFailed"],
                         [isNil |-> FALSE, authorize |-> "OPTS.authorize",
                          onAuthorizeFailed |-> "OPTS.onAuthorizeFailed",
                          resources |-> <<"resource">>, roles |-> <<"role">>])
    /\ LET other == initControllers(
                        OtherController,
                        createRouteInitializerForMethod(
                            UndecoratedMethod,
                            [use |-> <<>>, onError |-> Nil, serializer |-> Nil,
                             schema |-> Nil, onValidationFailed |-> Nil],
                            "get"))
           own == initControllers(controller, VALUE)
       IN router \in {other \o own, own \o other}
    /\ req = [r \in {1, 2} |-> NewRequest("POST")]

NextConcurrent ==
    \/ \E r \in DOMAIN req : Arrive(r)
    \/ \E r \in DOMAIN req : MiddlewareSettles(r)
    \/ \E r \in DOMAIN req : AuthorizerSettles(r)
    \/ \E r \in DOMAIN req : AuthorizeFailedSettles(r)
    \/ \E r \in DOMAIN req : ParserSettles(r)
    \/ \E r \in DOMAIN req : ValidationFailedSettles(r)
    \/ \E r \in DOMAIN req : HandlerSettles(r)
    \/ \E r \in DOMAIN req : SerializerSettles(r)
    \/ \E r \in DOMAIN req : ErrorHandlerSettles(r)

SpecConcurrent == InitConcurrent /\ [][NextConcurrent]_vars

\* the user function the request r awaits settles
Settles(r) ==
    \/ MiddlewareSettles(r)
    \/ AuthorizerSettles(r)
    \/ AuthorizeFailedSettles(r)
    \/ ParserSettles(r)
    \/ ValidationFailedSettles(r)
    \/ HandlerSettles(r)
    \/ SerializerSettles(r)
    \/ ErrorHandlerSettles(r)

\* every function a request awaits settles at some time
SpecConcurrentFair ==
    InitConcurrent /\ [][NextConcurrent]_vars
    /\ \A r \in {1, 2} : WF_vars(Settles(r))

(***************************************************************************)
(* The decorators as functions of their arguments.  A decorator runs when  *)
(* the class of the controller is defined, before any controller exists.   *)
(***************************************************************************)
\* characters of a method name besides those of the names listed in Names
MaxName == 2
\* characters of an explicit path
MaxPath == 3

SeqsUpTo(S, n) == UNION {[1..k -> S] : k \in 0..n}

\* an options object of a HTTP verb decorator; a property that is not set
\* is undefined
Options(path, schema, format, onValidationFailed) ==
    [t |-> "object", b |-> FALSE, s |-> <<>>, path |-> path, schema |-> schema,
     format |-> format, onValidationFailed |-> onValidationFailed]
EmptyOptions == Options(Undefined, Undefined, Undefined, Undefined)

\* toStringSafe(val)
toStringSafe(v) == IF isNil(v) THEN <<>> ELSE v.s

startsWith(s, c) == s # <<>> /\ Head(s) = c
endsWith(s, c) == s # <<>> /\ s[Len(s)] = c

\* path.sep of the platform the application runs on
path_sep == call.args.sep

\* the loop of normalizeRoutePath()
RECURSIVE WhileEndsWithSlash(_)
WhileEndsWithSlash(p) ==
    IF endsWith(p, "/")
    THEN WhileEndsWithSlash(trim(SubSeq(p, 1, Len(p) - 1)))
    ELSE p

\* normalizeRoutePath without the loop that removes the slashes at the end
normalizeRoutePath_keepsTrailingSlash(p) ==
    LET trimmed == trim(p)
        joined == [i \in 1..Len(trimmed) |->
                      IF trimmed[i] = path_sep THEN "/" ELSE trimmed[i]]
    IN IF startsWith(joined, "/") THEN joined ELSE <<"/">> \o joined

normalizeRoutePath(p) ==
    LET trimmed == trim(p)
        joined == [i \in 1..Len(trimmed) |->
                      IF trimmed[i] = path_sep THEN "/" ELSE trimmed[i]]
        stripped == WhileEndsWithSlash(joined)
    IN IF startsWith(stripped, "/") THEN stripped ELSE <<"/">> \o stripped

index == <<"i", "n", "d", "e", "x">>

\* createRouteInitializer(), up to the route path it computes: the options
\* it works with, whether the method is bound at all, and the path
createRouteInitializer(name, opts) ==
    LET orEmpty == IF isNil(opts) THEN EmptyOptions ELSE opts
        orSchema == IF isJoi(orEmpty) THEN [EmptyOptions EXCEPT !.schema = orEmpty]
                    ELSE orEmpty
        OPTS == IF ~isObjectLike(orSchema) \/ isRegExp(orSchema)
                THEN [EmptyOptions EXCEPT !.path = orSchema]
                ELSE orSchema
        routerPath ==
            IF isNil(OPTS.path)
            THEN Str(IF name # index THEN <<"/">> \o name ELSE <<"/">>)
            ELSE IF ~isRegExp(OPTS.path)
            THEN Str(trim(toStringSafe(OPTS.path)))
            ELSE OPTS.path
    IN IF startsWith(name, "_")
       THEN [registered |-> FALSE, opts |-> OPTS, path |-> Undefined]
       ELSE [registered |-> TRUE, opts |-> OPTS,
             path |-> IF isString(routerPath)
                      THEN Str(normalizeRoutePath(routerPath.s))
                      ELSE routerPath]

\* names of controller methods
NameChars == {"_", "a", "I"}
Names ==
    {index, <<"I", "n", "d", "e", "x">>, <<"i", "n", "d", "e", "x", "2">>}
    \cup (SeqsUpTo(NameChars, MaxName) \ {<<>>})

\* values of the 'path' option
PathChars == {"/", "\\", " ", "a"}
Paths ==
    {Undefined, Null, RegExp(<<"^", "a", "/">>)}
    \cup {Str(p) : p \in SeqsUpTo(PathChars, MaxPath)}

\* what a decorator hands to createRouteInitializer(): nothing, the first
\* argument when it is an object, or an options object
DecoratorOptions ==
    {Undefined, Joi(<<"schema">>), RegExp(<<"^", "a", "/">>)}
    \cup {Options(p, Undefined, Undefined, Undefined) : p \in Paths}

RoutePathCalls ==
    [fn : {"createRouteInitializer"},
     args : [name : Names, opts : DecoratorOptions, sep : {"/", "\\"}],
     done : {FALSE}, result : {<<>>}]

\* a decorator of a method computes the route of the method
CreateRouteInitializer ==
    /\ call.fn = "createRouteInitializer"
    /\ ~call.done
    /\ call' = [call EXCEPT !.done = TRUE,
                            !.result = createRouteInitializer(call.args.name,
                                                              call.args.opts)]
    /\ UNCHANGED <<globals, registration, req, setterCalls>>

(***************************************************************************)
(* The order in which initControllers() takes the files of the controllers *)
(* and the methods of a controller.                                        *)
(***************************************************************************)
\* length of a list of files or of methods
MaxSorted == 3

\* the UTF-16 code of a character
charCode(c) ==
    CASE c = " " -> 32 [] c = "." -> 46 [] c = "/" -> 47 [] c = "2" -> 50
      [] c = ":" -> 58 [] c = "@" -> 64 [] c = "I" -> 73 [] c = "\\" -> 92 [] c = "_" -> 95 [] c = "a" -> 97
      [] c = "d" -> 100 [] c = "e" -> 101 [] c = "i" -> 105 [] c = "n" -> 110
      [] c = "s" -> 115 [] c = "t" -> 116 [] c = "x" -> 120

\* a string as a value that < and > compare
CodeUnits(s) == [i \in 1..Len(s) |-> charCode(s[i])]

\* normalizeString() of a name
normalizeName(s) ==
    trim([i \in 1..Len(s) |-> IF s[i] = "I" THEN "i" ELSE s[i]])

\* 2^53 - 1 in JavaScript; here the largest integer of the model
MAX_SAFE_INTEGER == 2147483647
MIN_SAFE_INTEGER == -MAX_SAFE_INTEGER

\* VAL_X < VAL_Y, for two numbers or for two strings
RECURSIVE LessThan(_, _)
LessThan(VAL_X, VAL_Y) ==
    IF VAL_Y = <<>> THEN FALSE
    ELSE IF VAL_X = <<>> THEN TRUE
    ELSE IF Head(VAL_X) # Head(VAL_Y) THEN Head(VAL_X) < Head(VAL_Y)
    ELSE LessThan(Tail(VAL_X), Tail(VAL_Y))

\* compareValuesBy(), applied to the values the selector has selected
compareValues(VAL_X, VAL_Y) ==
    IF VAL_X # VAL_Y
    THEN IF LessThan(VAL_X, VAL_Y) THEN -1
         ELSE IF LessThan(VAL_Y, VAL_X) THEN 1
         ELSE 0
    ELSE 0

\* the selector that puts 'index' first
indexFirst(name) ==
    IF name = index THEN <<MIN_SAFE_INTEGER>> ELSE <<MAX_SAFE_INTEGER>>

\* the comparison of the methods without the rule for 'index'
compareMethods_byNameOnly(x, y) ==
    compareValues(CodeUnits(normalizeName(x)), CodeUnits(normalizeName(y)))

\* the comparison of two methods of a controller
compareMethods(x, y) ==
    LET COMP_0 == compareValues(indexFirst(x), indexFirst(y))
    IN IF 0 # COMP_0 THEN COMP_0
       ELSE compareValues(CodeUnits(normalizeName(x)),
                          CodeUnits(normalizeName(y)))

\* path.basename(f)
basename(f) == f.name \o f.ext

\* the comparison of two files
compareFiles(x, y) ==
    LET COMP_0 == compareValues(CodeUnits(normalizeName(x.dirname)),
                                CodeUnits(normalizeName(y.dirname)))
        COMP_1 == compareValues(indexFirst(x.name), indexFirst(y.name))
    IN IF 0 # COMP_0 THEN COMP_0
       ELSE IF 0 # COMP_1 THEN COMP_1
       ELSE compareValues(CodeUnits(normalizeName(basename(x))),
                          CodeUnits(normalizeName(basename(y))))

\* the comparison function handed to sort()
compare(x, y) ==
    IF call.fn = "sortMethods" THEN compareMethods(x, y) ELSE compareFiles(x, y)

\* Array.prototype.sort(): elements that compare equal keep their order
RECURSIVE InsertSorted(_, _)
InsertSorted(x, sorted) ==
    IF sorted = <<>> THEN <<x>>
    ELSE IF compare(x, Head(sorted)) < 0 THEN <<x>> \o sorted
    ELSE <<Head(sorted)>> \o InsertSorted(x, Tail(sorted))

RECURSIVE sort(_)
sort(list) ==
    IF list = <<>> THEN <<>>
    ELSE InsertSorted(list[Len(list)], sort(SubSeq(list, 1, Len(list) - 1)))

\* lists without repetition of at most MaxSorted elements of S
ListsOf(S) ==
    {l \in SeqsUpTo(S, MaxSorted) :
        \A i, j \in 1..Len(l) : i # j => l[i] # l[j]}

\* names of the methods of a controller that carry a decorator
MethodNames ==
    {index, <<"I", "n", "d", "e", "x">>, <<"a">>, <<"I">>, <<"a", "a">>,
     <<"a", "_">>}

\* the files of the controllers: directory, name without extension, extension
Files ==
    [dirname : {<<"/", "a">>, <<"/", "I">>, <<"/", "a", "/", "a">>},
     name : {index, <<"a">>, <<"I">>},
     ext : {<<".", "t", "s">>}]

SortCalls ==
    [fn : {"sortMethods"}, args : [list : ListsOf(MethodNames)],
     done : {FALSE}, result : {<<>>}]
    \cup [fn : {"sortFiles"}, args : [list : ListsOf(Files)],
          done : {FALSE}, result : {<<>>}]

\* initControllers() sorts the methods of a controller
SortMethods ==
    /\ call.fn = "sortMethods"
    /\ ~call.done
    /\ call' = [call EXCEPT !.done = TRUE, !.result = sort(call.args.list)]
    /\ UNCHANGED <<globals, registration, req, setterCalls>>

\* initControllers() sorts the files it has found
SortFiles ==
    /\ call.fn = "sortFiles"
    /\ ~call.done
    /\ call' = [call EXCEPT !.done = TRUE, !.result = sort(call.args.list)]
    /\ UNCHANGED <<globals, registration, req, setterCalls>>

(***************************************************************************)
(* The routers of initControllers(): one for each root path.               *)
(***************************************************************************)
\* path.relative(cwd, p) for a path p below cwd, written from cwd on
relative(p) ==
    LET q == IF endsWith(p, "/") THEN SubSeq(p, 1, Len(p) - 1) ELSE p
    IN IF startsWith(q, "/") THEN Tail(q) ELSE q

FILE_ROOT_PATH(F) ==
    normalizeRoutePath(
        relative(F.dirname \o <<"/">> \o (IF index = F.name THEN <<>> ELSE F.name)))

\* FILE_ROOT_PATH.split('/@').join('/:')
RECURSIVE ROOT_PATH(_)
ROOT_PATH(p) ==
    IF Len(p) < 2 THEN p
    ELSE IF p[1] = "/" /\ p[2] = "@"
    THEN <<"/", ":">> \o ROOT_PATH(SubSeq(p, 3, Len(p)))
    ELSE <<p[1]>> \o ROOT_PATH(Tail(p))

\* nothing is mounted on the app, and no controller has been created
NoRouters == [ROUTERS |-> <<>>, app |-> <<>>, controllers |-> <<>>]

\* the loop over the files that creates a router for every controller
RECURSIVE ForEachFile_routerPerController(_, _, _)
ForEachFile_routerPerController(FILES, withoutClass, st) ==
    IF FILES = <<>> THEN st
    ELSE LET F == Head(FILES)
             root == ROOT_PATH(FILE_ROOT_PATH(F))
             ROUTER == Len(st.app) + 1
         IN IF F \in withoutClass
            THEN ForEachFile_routerPerController(Tail(FILES), withoutClass, st)
            ELSE ForEachFile_routerPerController(Tail(FILES), withoutClass,
                     [ROUTERS |-> [q \in DOMAIN st.ROUTERS \cup {root} |-> ROUTER],
                      app |-> Append(st.app, [path |-> root, router |-> ROUTER]),
                      controllers |->
                          Append(st.controllers,
                                 [file |-> F, ROOT_PATH |-> root,
                                  ROUTER |-> ROUTER])])

\* the loop over the files: ROUTERS[ROOT_PATH] is created and mounted on the
\* app when it is nil, and the controller is constructed with it; a router
\* is named by the number of routers created before it
RECURSIVE ForEachFile(_, _, _)
ForEachFile(FILES, withoutClass, st) ==
    IF FILES = <<>> THEN st
    ELSE LET F == Head(FILES)
             root == ROOT_PATH(FILE_ROOT_PATH(F))
             isNil_ROUTER == root \notin DOMAIN st.ROUTERS
             ROUTERS == IF isNil_ROUTER
                        THEN [q \in DOMAIN st.ROUTERS \cup {root} |->
                                 IF q = root THEN Len(st.app) + 1
                                 ELSE st.ROUTERS[q]]
                        ELSE st.ROUTERS
         IN IF F \in withoutClass
            THEN ForEachFile(Tail(FILES), withoutClass, st)
            ELSE ForEachFile(Tail(FILES), withoutClass,
                     [ROUTERS |-> ROUTERS,
                      app |-> IF isNil_ROUTER
                              THEN Append(st.app, [path |-> root,
                                                   router |-> ROUTERS[root]])
                              ELSE st.app,
                      controllers |->
                          Append(st.controllers,
                                 [file |-> F, ROOT_PATH |-> root,
                                  ROUTER |-> ROUTERS[root]])])

\* the files of the controllers below cwd; at most one of them exports no
\* controller class
ControllerFiles ==
    [dirname : {<<"/", "a">>, <<"/", "a", "/", "a">>},
     name : {index, <<"a">>, <<"@", "a">>, <<":", "a">>},
     ext : {<<".", "t", "s">>}]

InitControllersCalls ==
    [fn : {"initControllers"},
     args : [list : ListsOf(ControllerFiles),
             withoutClass : {{}} \cup {{f} : f \in ControllerFiles},
             sep : {"/"}],
     done : {FALSE}, result : {<<>>}]

\* initControllers() sorts the files, creates the routers and the controllers
InitControllers ==
    /\ call.fn = "initControllers"
    /\ ~call.done
    /\ call' = [call EXCEPT
                    !.done = TRUE,
                    !.result = ForEachFile(sort(call.args.list),
                                           call.args.withoutClass, NoRouters)]
    /\ UNCHANGED <<globals, registration, req, setterCalls>>

(***************************************************************************)
(* serializeForJSON() of a readable stream: readAll() collects the data of *)
(* the stream, and the buffer it resolves with is encoded as base64.       *)
(***************************************************************************)
\* number of events a stream emits
MaxEvents == 3

\* Buffer.prototype.toString('base64'): the indices of the characters in
\* the alphabet of base64, and 64 for the padding '='
RECURSIVE base64(_)
base64(b) ==
    IF Len(b) = 0 THEN <<>>
    ELSE IF Len(b) = 1
    THEN <<b[1] \div 4, (b[1] % 4) * 16, 64, 64>>
    ELSE IF Len(b) = 2
    THEN <<b[1] \div 4, (b[1] % 4) * 16 + (b[2] \div 16), (b[2] % 16) * 4, 64>>
    ELSE <<b[1] \div 4, (b[1] % 4) * 16 + (b[2] \div 16),
           (b[2] % 16) * 4 + (b[3] \div 64), b[3] % 64>>
         \o base64(SubSeq(b, 4, Len(b)))

\* readAll(stream) has registered its listeners: nothing is read, and the
\* promise is pending.  The stream emits chunks of bytes, and 'error' and
\* 'end' at most once
ReadAllCalls ==
    [fn : {"readAll"},
     args : [events :
                {e \in SeqsUpTo([type : {"data"}, chunk : {<<77>>, <<97, 255>>}]
                                \cup [type : {"error", "end"}, chunk : {<<>>}],
                                MaxEvents) :
                    \A t \in {"error", "end"} :
                        Cardinality({k \in 1..Len(e) : e[k].type = t}) <= 1}],
     done : {FALSE},
     result : {[i |-> 0, data |-> <<>>, completedInvoked |-> FALSE,
                promise |-> "pending", value |-> <<>>, serialized |-> <<>>]}]

\* the stream emits its next event, unless the code behind 'await readAll()'
\* is about to run
Emits(type) ==
    /\ call.fn = "readAll"
    /\ call.result.i < Len(call.args.events)
    /\ call.args.events[call.result.i + 1].type = type
    /\ ~(call.result.promise = "resolved" /\ ~call.done)

COMPLETED(st, err) ==
    IF st.completedInvoked THEN st
    ELSE [st EXCEPT !.completedInvoked = TRUE,
                    !.promise = IF err THEN "rejected" ELSE "resolved",
                    !.value = IF err THEN <<>> ELSE st.data]

\* stream.once("error", ...)
OnError ==
    /\ Emits("error")
    /\ call' = [call EXCEPT
                    !.result = COMPLETED([@ EXCEPT !.i = @ + 1], TRUE)]
    /\ UNCHANGED <<globals, registration, req, setterCalls>>

\* stream.on("data", ...)
OnData ==
    /\ Emits("data")
    /\ LET chunk == call.args.events[call.result.i + 1].chunk
       IN call' = [call EXCEPT
                      !.result.i = @ + 1,
                      !.result.data = IF Len(@) > 0 THEN @ \o chunk ELSE @]
    /\ UNCHANGED <<globals, registration, req, setterCalls>>

\* stream.once("end", ...)
OnEnd ==
    /\ Emits("end")
    /\ call' = [call EXCEPT
                    !.result = COMPLETED([@ EXCEPT !.i = @ + 1], FALSE)]
    /\ UNCHANGED <<globals, registration, req, setterCalls>>

\* serializeForJSONInner() goes on behind 'await readAll(val)'
SerializeStream ==
    /\ call.fn = "readAll"
    /\ call.result.promise = "resolved"
    /\ ~call.done
    /\ call' = [call EXCEPT !.done = TRUE,
                            !.result.serialized = base64(call.result.value)]
    /\ UNCHANGED <<globals, registration, req, setterCalls>>

(***************************************************************************)
(* serializeForJSON() of strings, arrays and functions.  The calls of      *)
(* serializeForJSONInner() that have not returned are kept as a stack:     *)
(* every call awaits the call it has made.                                 *)
(***************************************************************************)
\* calls of serializeForJSONInner() that the model lets be open at a time
MaxStack == 66

\* the depth behind which a value is returned as it is
TOO_DEEP == 63

\* a call serializeForJSONInner(val, handledValues, depth) that is to start
Frame(val, depth) ==
    [val |-> val, depth |-> depth, pc |-> "enter", next |-> 1, out |-> <<>>]

\* serializeForJSON(val) is called: val is the value 1 of a graph of values,
\* each a string, an array of values or a function that returns a value
SerializeCalls ==
    [fn : {"serializeForJSON"},
     args : [graph :
                [{1, 2} ->
                    [kind : {"string"}, items : {<<>>}]
                    \cup [kind : {"function"}, items : {<<1>>, <<2>>}]
                    \cup [kind : {"array"}, items : SeqsUpTo({1, 2}, 2)]]],
     done : {FALSE},
     result : {[stack |-> <<Frame(1, 0)>>, handledValues |-> <<>>,
                value |-> <<>>]}]

\* the call on top of the stack returns r: the call that awaits it goes on
\* behind its await, FIND_HANDLED_INSTANCE with NEW_VALUE
ReturnValue(st, r) ==
    LET n == Len(st.stack)
        rest == SubSeq(st.stack, 1, n - 1)
    IN IF n = 1 THEN [st EXCEPT !.stack = <<>>, !.value = r]
       ELSE IF rest[n - 1].pc = "await function"
       THEN [st EXCEPT !.stack = [rest EXCEPT ![n - 1].pc = "return",
                                              ![n - 1].out = <<r>>]]
       ELSE [st EXCEPT
                !.stack = [rest EXCEPT ![n - 1].pc = "for",
                                       ![n - 1].out = Append(@, r),
                                       ![n - 1].next = @ + 1],
                !.handledValues =
                    Append(@, [serialized |-> r, value |-> st.stack[n].val])]

\* the loop over the items of an array, up to its next await
ForOf(st, graph) ==
    LET n == Len(st.stack)
        f == st.stack[n]
        items == graph[f.val].items
        ITEM == items[f.next]
        found == {k \in 1..Len(st.handledValues) :
                     st.handledValues[k].value = ITEM}
    IN IF f.next > Len(items)
       THEN ReturnValue(st, [t |-> "array", val |-> f.val, items |-> f.out])
       ELSE IF found # {}
       THEN [st EXCEPT
                !.stack[n].pc = "for",
                !.stack[n].out =
                    Append(@, st.handledValues[CHOOSE k \in found :
                                                  \A j \in found : k <= j]
                                 .serialized),
                !.stack[n].next = @ + 1]
       ELSE [st EXCEPT !.stack = Append([@ EXCEPT ![n].pc = "await item"],
                                        Frame(ITEM, 0))]

\* a call of serializeForJSONInner() runs up to its first await
SerializeCall ==
    /\ call.fn = "serializeForJSON"
    /\ call.result.stack # <<>>
    /\ LET st == call.result
           n == Len(st.stack)
           f == st.stack[n]
           node == call.args.graph[f.val]
           after ==
               IF f.depth > TOO_DEEP
               THEN ReturnValue(st, [t |-> "val", val |-> f.val, items |-> <<>>])
               ELSE CASE node.kind = "string" ->
                            ReturnValue(st, [t |-> "string", val |-> f.val,
                                             items |-> <<>>])
                      [] node.kind = "function" ->
                            [st EXCEPT
                                !.stack = Append(
                                    [@ EXCEPT ![n].pc = "await function"],
                                    Frame(node.items[1], f.depth + 1))]
                      [] node.kind = "array" -> ForOf(st, call.args.graph)
       IN /\ f.pc = "enter"
          /\ Len(after.stack) <= MaxStack
          /\ call' = [call EXCEPT !.result = after,
                                  !.done = after.stack = <<>>]
    /\ UNCHANGED <<globals, registration, req, setterCalls>>

\* a call of serializeForJSONInner() goes on behind an await
SerializeResume ==
    /\ call.fn = "serializeForJSON"
    /\ call.result.stack # <<>>
    /\ LET st == call.result
           f == st.stack[Len(st.stack)]
           after == IF f.pc = "return" THEN ReturnValue(st, f.out[1])
                    ELSE ForOf(st, call.args.graph)
       IN /\ f.pc \in {"return", "for"}
          /\ Len(after.stack) <= MaxStack
          /\ call' = [call EXCEPT !.result = after,
                                  !.done = after.stack = <<>>]
    /\ UNCHANGED <<globals, registration, req, setterCalls>>

(***************************************************************************)
(* The arguments of the decorators of the methods with a body.             *)
(***************************************************************************)
\* number of arguments of a decorator
MaxArgs == 4

\* args[i], counted from 1
Arg(args, i) == IF i <= Len(args) THEN args[i] ELSE Undefined

\* UPDATE_OPTS_BY_SCHEMA_ARGS that takes its first argument as the format,
\* whatever it is
UPDATE_OPTS_BY_SCHEMA_ARGS_formatFirst(opts, arg0, arg1) ==
    [opts EXCEPT !.format = arg0, !.onValidationFailed = arg1]

UPDATE_OPTS_BY_SCHEMA_ARGS(opts, arg0, arg1) ==
    IF isFunction(arg0) THEN [opts EXCEPT !.onValidationFailed = arg0]
    ELSE [opts EXCEPT !.format = arg0, !.onValidationFailed = arg1]

toControllerRouteWithBodyOptions(args) ==
    IF Len(args) = 0 THEN Undefined
    ELSE LET FIRST_ARG == args[1]
         IN IF isJoi(FIRST_ARG)
            THEN UPDATE_OPTS_BY_SCHEMA_ARGS(
                     [EmptyOptions EXCEPT !.schema = FIRST_ARG],
                     Arg(args, 2), Arg(args, 3))
            ELSE IF isObjectLike(FIRST_ARG) THEN FIRST_ARG
            ELSE UPDATE_OPTS_BY_SCHEMA_ARGS(
                     [EmptyOptions EXCEPT !.path = FIRST_ARG,
                                          !.schema = Arg(args, 2)],
                     Arg(args, 3), Arg(args, 4))

\* values an application hands to POST(), PUT(), PATCH(), DELETE(),
\* CONNECT() or TRACE()
ArgValues ==
    {Undefined, Joi(<<"schema">>), Str(<<"/", "a">>), Function(<<"f">>),
     Num(<<"1">>), RegExp(<<"^", "a", "/">>),
     Options(Str(<<"/", "o">>), Joi(<<"schema", "o">>), Undefined,
             Function(<<"g">>))}

BodyOptionsCalls ==
    [fn : {"toControllerRouteWithBodyOptions"},
     args : [list : SeqsUpTo(ArgValues, MaxArgs), sep : {"/"}],
     done : {FALSE}, result : {<<>>}]

\* a decorator of a method with a body resolves its arguments
ToControllerRouteWithBodyOptions ==
    /\ call.fn = "toControllerRouteWithBodyOptions"
    /\ ~call.done
    /\ call' = [call EXCEPT
                    !.done = TRUE,
                    !.result = toControllerRouteWithBodyOptions(call.args.list)]
    /\ UNCHANGED <<globals, registration, req, setterCalls>>

InitCalls ==
    /\ authorizationHandler = Nil
    /\ authorizationFailedHandler = Nil
    /\ objValidateFailedHandler = Nil
    /\ reqErrorHandler = Nil
    /\ resSerializer = Nil
    /\ setterCalls = 0
    /\ controller = NoController
    /\ VALUE = UndecoratedMethod
    /\ router = <<>>
    /\ req = [r \in Requests |-> NewRequest("POST")]
    /\ call \in RoutePathCalls \cup SortCalls \cup BodyOptionsCalls
                \cup InitControllersCalls \cup ReadAllCalls
                \cup SerializeCalls

NextCalls ==
    \/ CreateRouteInitializer
    \/ SortMethods
    \/ SortFiles
    \/ ToControllerRouteWithBodyOptions
    \/ InitControllers
    \/ OnError
    \/ OnData
    \/ OnEnd
    \/ SerializeStream
    \/ SerializeCall
    \/ SerializeResume

SpecCalls == InitCalls /\ [][NextCalls]_vars

(***************************************************************************)
(* Vocabulary of the properties.                                           *)
(***************************************************************************)
\* the route the decorator of the method defines, and the decorator's options
Route == VALUE.INITIALIZE_ROUTE[1]
RouteOpts == Route.opts

Positions(rq) == 1..Len(rq.log)
EventsOf(rq, ev) == {k \in Positions(rq) : rq.log[k].ev = ev}

\* the entries a step appends to the history of a request
NewEvents(r, ev) ==
    {k \in (Len(req[r].log) + 1)..Len(req'[r].log) : req'[r].log[k].ev = ev}

\* nothing of the chain runs behind position k of the history
NothingRunsAfter(rq, k) ==
    \A j \in Positions(rq) :
        j > k => rq.log[j].ev \notin {"stage", "next", "serializer", "handler"}

IsPrefix(a, b) == Len(a) <= Len(b) /\ a = SubSeq(b, 1, Len(a))

\* the stages of the chain the configuration asks for, in the order of the
\* contract
ExpectedStages ==
    [i \in 1..Len(controller.__use) |-> <<"__use", "__use", ToString(i)>>]
    \o [i \in 1..Len(RouteOpts.use) |-> <<"use", "use", ToString(i)>>]
    \o << <<"authorizer", "createRouteAuthorizer", "0">> >>
    \o (IF RouteOpts.schema # Nil
        THEN << <<"parser", "express.json", "0">>,
                <<"validator", "objectValidate", "0">> >>
        ELSE <<>>)
    \o << <<"handler", "VALUE", "0">> >>

ExpectedOrder == ExpectedStages \o << <<"serializer", "serializer", "0">> >>

\* the stages a request has started, in the order they started
StartedStages(rq) ==
    LET started == SelectSeq(rq.log, LAMBDA e : e.ev \in {"stage", "serializer"})
    IN [k \in 1..Len(started) |->
          IF started[k].ev = "serializer"
          THEN <<"serializer", "serializer", "0">>
          ELSE <<started[k].who, started[k].val.s[1], started[k].val2.s[1]>>]

(***************************************************************************)
(* C1: the stages of a request start in the order prefix middlewares,      *)
(* route middlewares, authorization gate, body parser and validator,       *)
(* controller method, serializer; a stage starts only in the task in which *)
(* the stage before it has called next(); and a request whose controller   *)
(* method has returned has started every stage of the chain.               *)
(***************************************************************************)
C1_StageOrder ==
    \A r \in Requests :
        LET rq == req[r]
            log == rq.log
        IN /\ IsPrefix(StartedStages(rq), ExpectedOrder)
           /\ \A k \in Positions(rq) :
                 log[k].ev = "stage" =>
                    IF log[k].idx = 1 THEN k = 1
                    ELSE /\ k > 1
                         /\ log[k - 1].ev = "next"
                         /\ log[k - 1].idx = log[k].idx - 1
           /\ (\E k \in Positions(rq) :
                  log[k].ev = "result" /\ log[k].idx = Len(ExpectedStages))
              => IsPrefix(ExpectedStages, StartedStages(rq))

\* a request has run through middlewares of both lists, an authorizer, the
\* body validation, the controller method and a serializer
C1_Witness ==
    \E r \in Requests :
        /\ req[r].pc = "done" /\ req[r].outcome = "returned"
        /\ Len(controller.__use) > 0 /\ Len(RouteOpts.use) > 0
        /\ RouteOpts.schema # Nil
        /\ EventsOf(req[r], "authorizer") # {}
        /\ EventsOf(req[r], "serializer") # {}
        /\ EventsOf(req[r], "result") # {}
        /\ StartedStages(req[r]) = ExpectedOrder

(***************************************************************************)
(* C2: when the authorizer's result is false, null, undefined or a         *)
(* non-blank string, nothing of the chain runs afterwards and exactly one  *)
(* 'authorize failed' handler is invoked; when it is true or the empty     *)
(* string, next() is called and no 'authorize failed' handler is invoked.  *)
(***************************************************************************)
DenyingResults ==
    {v \in AuthorizeResults :
        v = False \/ isNil(v) \/ (isString(v) /\ trim(v.s) # <<>>)}

C3_NonEmptyStringDenies ==
    \A r \in Requests :
        LET rq == req[r]
            log == rq.log
        IN \A k \in EventsOf(rq, "authorizer.result") :
              (isString(log[k].val) /\ log[k].val.s # <<>>) =>
                 /\ NothingRunsAfter(rq, k)
                 /\ k < Len(log)
                 /\ log[k + 1].ev = "authorizeFailed"
                 /\ log[k + 1].val = log[k].val

(***************************************************************************)
(* C3 amended: every string the authorizer returns that is not blank, that *)
(* is, has a character other than whitespace, is a denial, and the string  *)
(* as returned is the result the 'authorize failed' handler receives.      *)
(***************************************************************************)
C3_NonBlankStringDenies ==
    \A r \in Requests :
        LET rq == req[r]
            log == rq.log
        IN \A k \in EventsOf(rq, "authorizer.result") :
              (isString(log[k].val) /\ trim(log[k].val.s) # <<>>) =>
                 /\ NothingRunsAfter(rq, k)
                 /\ k < Len(log)
                 /\ log[k + 1].ev = "authorizeFailed"
                 /\ log[k + 1].val = log[k].val

\* an authorizer has returned ' denied ' and the failed handler got it
C3_Witness ==
    \E r \in Requests :
        \E k \in EventsOf(req[r], "authorizeFailed") :
            /\ req[r].log[k].val = Str(<<" ", "denied", " ">>)
            /\ req[r].log[k - 1].ev = "authorizer.result"
            /\ req[r].pc = "done"

(***************************************************************************)
(* C4 as stated in the README: with Authorize on the method and            *)
(* __authorize on the controller, the method is invoked if __authorize     *)
(* returns true or nothing (null, undefined or the empty string), and not  *)
(* if it returns false or a non-empty string (read as non-blank, as the    *)
(* trim() of the code has it).                                             *)
(***************************************************************************)
C4_ReadmeAuthorize ==
    \A r \in Requests :
        LET rq == req[r]
            log == rq.log
        IN \A k \in EventsOf(rq, "authorizer.result") :
              log[k].who = "controller.__authorize" =>
                 /\ log[k].val \in {True, Null, Undefined, Str(<<>>)} =>
                       /\ EventsOf(rq, "authorizeFailed") = {}
                       /\ log[k + 1].ev = "next"
                 /\ (log[k].val = False
                     \/ (isString(log[k].val) /\ trim(log[k].val.s) # <<>>)) =>
                       NothingRunsAfter(rq, k)

(***************************************************************************)
(* C5: on a method with Authorize, the authorizer invoked is the first     *)
(* that is set of the authorize option, the controller's __authorize and   *)
(* the global authorize handler; when none is set, no authorizer is        *)
(* invoked and next() is called.                                           *)
(***************************************************************************)
C5_AuthorizerPrecedence ==
    [][\A r \in Requests :
          \A k \in NewEvents(r, "stage") :
              LET log == req'[r].log
                  OPTS == VALUE.AUTHORIZER_OPTIONS
              IN (log[k].who = "authorizer" /\ ~OPTS.isNil) =>
                    IF OPTS.authorize # Nil
                    THEN log[k + 1].ev = "authorizer"
                         /\ log[k + 1].who = OPTS.authorize
                    ELSE IF controller.__authorize # Nil
                    THEN log[k + 1].ev = "authorizer"
                         /\ log[k + 1].who = controller.__authorize
                    ELSE IF authorizationHandler # Nil
                    THEN log[k + 1].ev = "authorizer"
                         /\ log[k + 1].who = authorizationHandler
                    ELSE log[k + 1].ev = "next"
                         /\ EventsOf(req'[r], "authorizer") = {}]_vars

\* neither the decorator nor the controller names an authorizer, and the
\* global one has been invoked
C5_Witness ==
    \E r \in Requests :
        /\ ~VALUE.AUTHORIZER_OPTIONS.isNil
        /\ VALUE.AUTHORIZER_OPTIONS.authorize = Nil
        /\ controller.__authorize = Nil
        /\ \E k \in EventsOf(req[r], "authorizer") :
              req[r].log[k].who \in GlobalHandlers

\* the 'authorize failed' handler the contract names for a denial
ExpectedAuthorizeFailedHandler ==
    LET OPTS == VALUE.AUTHORIZER_OPTIONS
    IN IF OPTS.onAuthorizeFailed # Nil THEN OPTS.onAuthorizeFailed
       ELSE IF controller.__authorizeFailed # Nil
       THEN controller.__authorizeFailed
       ELSE IF authorizationFailedHandler # Nil
       THEN authorizationFailedHandler
       ELSE "default"

(***************************************************************************)
(* C6 as stated: on denial the handler invoked is the first that is set of *)
(* onAuthorizeFailed, __authorizeFailed, the global handler and the        *)
(* built-in default; the default answers 403 with the denial string as     *)
(* body when the result is a string, and with an empty body otherwise.     *)
(***************************************************************************)
C6_DefaultSendsDenialString ==
    [][\A r \in Requests :
          \A k \in NewEvents(r, "authorizeFailed") :
              LET e == req'[r].log[k]
              IN /\ e.who = ExpectedAuthorizeFailedHandler
                 /\ e.who = "default" =>
                       /\ req'[r].res.status = 403
                       /\ req'[r].res.body =
                             IF isString(e.val) THEN e.val.s ELSE <<>>]_vars

(***************************************************************************)
(* C6 amended: the same precedence; the default answers 403 with the       *)
(* denial string without its leading and trailing whitespace as body when  *)
(* the result is a string, and with an empty body otherwise.               *)
(***************************************************************************)
C6_DefaultSendsTrimmedString ==
    [][\A r \in Requests :
          \A k \in NewEvents(r, "authorizeFailed") :
              LET e == req'[r].log[k]
              IN /\ e.who = ExpectedAuthorizeFailedHandler
                 /\ e.who = "default" =>
                       /\ req'[r].res.status = 403
                       /\ req'[r].res.body =
                             IF isString(e.val) THEN trim(e.val.s) ELSE <<>>]_vars

\* the default handler has answered the denial ' denied ' with 403 'denied'
C6_Witness ==
    \E r \in Requests :
        /\ req[r].pc = "done"
        /\ req[r].res.status = 403
        /\ req[r].res.body = <<"denied">>
        /\ \E k \in EventsOf(req[r], "authorizeFailed") :
              /\ req[r].log[k].who = "default"
              /\ req[r].log[k].val = Str(<<" ", "denied", " ">>)

(***************************************************************************)
(* C7: in a validator whose method matches the request, an object-like     *)
(* body the schema rejects ends the chain in the failed handler with       *)
(* reason 'invalid_input' and the message of the schema engine as details; *)
(* a body that is not object-like ends it with reason 'no_object'; a body  *)
(* the schema accepts passes with next() and no failed handler runs.       *)
(***************************************************************************)
C7_BodyValidation ==
    \A r \in Requests :
        LET rq == req[r]
            log == rq.log
            BODY == rq.body
            verdict == validate(RouteOpts.schema, BODY)
        IN \A k \in EventsOf(rq, "stage") :
              (log[k].who = "validator"
               /\ normalizeString(rq.method) = Route.method) =>
                 /\ (isObjectLike(BODY) /\ verdict.error # Nil) =>
                       /\ log[k + 1].ev = "validationFailed"
                       /\ log[k + 1].val = Str(<<"invalid_input">>)
                       /\ log[k + 1].val2 = verdict.message
                       /\ NothingRunsAfter(rq, k)
                 /\ ~isObjectLike(BODY) =>
                       /\ log[k + 1].ev = "validationFailed"
                       /\ log[k + 1].val = Str(<<"no_object">>)
                       /\ NothingRunsAfter(rq, k)
                 /\ (isObjectLike(BODY) /\ verdict.error = Nil) =>
                       /\ log[k + 1].ev = "next"
                       /\ log[k + 2].ev = "stage"
                       /\ EventsOf(rq, "validationFailed") = {}

\* the schema has rejected the body {bad} and the failed handler got the
\* reason and the message
C7_Witness ==
    \E r \in Requests :
        /\ req[r].pc = "done"
        /\ req[r].body = Obj(<<"bad">>)
        /\ \E k \in EventsOf(req[r], "validationFailed") :
              /\ req[r].log[k].val = Str(<<"invalid_input">>)
              /\ req[r].log[k].val2 = Str(<<"invalid:", "bad">>)
        /\ EventsOf(req[r], "handler") = {}

(***************************************************************************)
(* C8: when a validation fails the handler invoked is the route's          *)
(* onValidationFailed if set, else the global handler if set, else the     *)
(* built-in default, which answers 400 with the JSON of {success: false,   *)
(* data: {details, reason}}; one handler is invoked, once.                 *)
(***************************************************************************)
C8_ValidationFailedHandler ==
    [][\A r \in Requests :
          \A k \in NewEvents(r, "validationFailed") :
              LET e == req'[r].log[k]
              IN /\ e.who = IF RouteOpts.onValidationFailed # Nil
                            THEN RouteOpts.onValidationFailed
                            ELSE IF objValidateFailedHandler # Nil
                            THEN objValidateFailedHandler
                            ELSE "default"
                 /\ Cardinality(EventsOf(req'[r], "validationFailed")) = 1
                 /\ e.who = "default" =>
                       /\ req'[r].res.status = 400
                       /\ req'[r].res.json =
                             [success |-> FALSE, details |-> e.val2,
                              reason |-> e.val]]_vars

\* the default handler has answered an invalid body with 400
C8_Witness ==
    \E r \in Requests :
        /\ req[r].pc = "done"
        /\ req[r].res.status = 400
        /\ req[r].res.json.reason = Str(<<"invalid_input">>)
        /\ \E k \in EventsOf(req[r], "validationFailed") :
              req[r].log[k].who = "default"

(***************************************************************************)
(* C9: for an error the controller method throws, the error handler        *)
(* invoked is the first that is set of the route's onError, the            *)
(* controller's __error and the global handler, else the built-in default, *)
(* which answers 500 with an empty body.                                   *)
(***************************************************************************)
C9_ErrorHandlerPrecedence ==
    [][\A r \in Requests :
          \A k \in NewEvents(r, "errorHandler") :
              LET e == req'[r].log[k]
              IN e.val = Err(<<"handler">>) =>
                    /\ e.who = IF RouteOpts.onError # Nil THEN RouteOpts.onError
                               ELSE IF controller.__error # Nil
                               THEN controller.__error
                               ELSE IF reqErrorHandler # Nil
                               THEN reqErrorHandler
                               ELSE "default"
                    /\ e.who = "default" =>
                          /\ req'[r].res.status = 500
                          /\ req'[r].res.body = <<>>]_vars

\* route, controller and application all name an error handler, and the
\* route's one has handled the error of the controller method
C9_Witness ==
    \E r \in Requests :
        /\ RouteOpts.onError # Nil
        /\ controller.__error # Nil
        /\ reqErrorHandler # Nil
        /\ \E k \in EventsOf(req[r], "errorHandler") :
              /\ req[r].log[k].val = Err(<<"handler">>)
              /\ req[r].log[k].who = RouteOpts.onError

(***************************************************************************)
(* C10: an error thrown by a middleware, the authorizer, an 'authorize     *)
(* failed' handler, a 'validation failed' handler, the controller method   *)
(* or the serializer is caught by the wrapper of the stage it is thrown    *)
(* in: one error handler is invoked with that error, once, and nothing of  *)
(* the chain runs afterwards.                                              *)
(***************************************************************************)
C10_ErrorsAreCaught ==
    \A r \in Requests :
        LET rq == req[r]
            log == rq.log
        IN \A k \in EventsOf(rq, "throw") :
              /\ k < Len(log)
              /\ log[k + 1].ev = "errorHandler"
              /\ log[k + 1].val = log[k].val
              /\ log[k + 1].idx = log[k].idx
              /\ Cardinality(EventsOf(rq, "errorHandler")) = 1
              /\ NothingRunsAfter(rq, k)
              /\ \A j \in EventsOf(rq, "result") : j < k

\* a 'validation failed' handler has thrown and an error handler has
\* ended the request
C10_Witness ==
    \E r \in Requests :
        /\ req[r].pc = "done"
        /\ \E k \in EventsOf(req[r], "throw") :
              /\ req[r].log[k].who = "validationFailed"
              /\ req[r].log[k + 1].ev = "errorHandler"

\* the kind of the stage an entry of the history belongs to
StageKind(rq, k) == Chain(rq)[rq.log[k].idx].handler.kind

(***************************************************************************)
(* C11 as stated: on a route with onError, an error thrown in a route      *)
(* middleware, in the authorization gate, in a body validator or in the    *)
(* controller method is handled by the route's onError.                    *)
(***************************************************************************)
C11_RouteErrorHandlerAllStages ==
    \A r \in Requests :
        LET rq == req[r]
        IN \A k \in EventsOf(rq, "errorHandler") :
              (RouteOpts.onError # Nil
               /\ StageKind(rq, k) \in {"use", "authorizer", "validator", "handler"})
              => rq.log[k].who = RouteOpts.onError

(***************************************************************************)
(* C12: when the controller method returns, the serializer invoked is the  *)
(* first that is set of the route's serializer option, the controller's    *)
(* __serialize and the global serializer; it is invoked once, with the     *)
(* value the method returned as result of its context, and the value it    *)
(* returns is the outcome; when none is set no serializer is invoked and   *)
(* the outcome is the value the method returned.                           *)
(***************************************************************************)
C12_SerializerPrecedence ==
    [][\A r \in Requests :
          LET log == req'[r].log
              expected == IF RouteOpts.serializer # Nil THEN RouteOpts.serializer
                          ELSE IF controller.__serialize # Nil
                          THEN controller.__serialize
                          ELSE resSerializer
          IN /\ \A k \in NewEvents(r, "handler.result") :
                   IF expected = Nil
                   THEN /\ log[k + 1].ev = "result"
                        /\ log[k + 1].val = log[k].val
                        /\ req'[r].pc = "done"
                        /\ EventsOf(req'[r], "serializer") = {}
                   ELSE /\ log[k + 1].ev = "serializer"
                        /\ log[k + 1].who = expected
                        /\ log[k + 1].val = log[k].val
                        /\ Cardinality(EventsOf(req'[r], "serializer")) = 1
                        /\ EventsOf(req'[r], "result") = {}
             /\ \A k \in NewEvents(r, "result") :
                   Awaits(r, "serializer") =>
                      /\ log[k - 1].ev = "serializer"
                      /\ log[k].val = Serialized(log[k - 1].val)
                      /\ Cardinality(EventsOf(req'[r], "result")) = 1]_vars

\* controller and application name a serializer, the route names none, and
\* the controller's one has serialized the value the method returned
C12_Witness ==
    \E r \in Requests :
        /\ req[r].pc = "done"
        /\ RouteOpts.serializer = Nil
        /\ controller.__serialize # Nil
        /\ resSerializer # Nil
        /\ \E k \in EventsOf(req[r], "serializer") :
              /\ req[r].log[k].who = controller.__serialize
              /\ req[r].log[k].val = Obj(<<"data">>)
              /\ req[r].log[k - 1].ev = "handler.result"
        /\ \E k \in EventsOf(req[r], "result") :
              req[r].log[k].val = Obj(<<"serialized", "data">>)

(***************************************************************************)
(* C13: a serializer is invoked for the controller method only: what a     *)
(* prefix or route middleware, the authorization gate with its 'authorize  *)
(* failed' handler or a validator with its 'validation failed' handler     *)
(* returns is the outcome as it is and is passed to no serializer.         *)
(***************************************************************************)
C13_SerializerOnlyForMethod ==
    \A r \in Requests :
        LET rq == req[r]
            log == rq.log
        IN /\ \A k \in EventsOf(rq, "serializer") :
                 /\ StageKind(rq, k) = "handler"
                 /\ log[k - 1].ev = "handler.result"
           /\ \A k \in EventsOf(rq, "result") :
                 StageKind(rq, k) # "handler" =>
                    /\ log[k].val = Undefined
                    /\ EventsOf(rq, "serializer") = {}

\* a serializer is set for the method, and an 'authorize failed' handler
\* has ended the request without one being invoked
C13_Witness ==
    \E r \in Requests :
        /\ req[r].pc = "done"
        /\ FirstNonNil(<< RouteOpts.serializer, controller.__serialize,
                          resSerializer >>) # Nil
        /\ EventsOf(req[r], "authorizeFailed") # {}
        /\ \E k \in EventsOf(req[r], "result") :
              StageKind(req[r], k) = "authorizer"
        /\ EventsOf(req[r], "serializer") = {}

\* the calls of the controller method for a request
MethodCalls(rq) ==
    {k \in EventsOf(rq, "stage") : rq.log[k].who = "handler"}

\* the request has passed the authorization gate and, on a route with a
\* schema, the validator
PassedAllChecks(rq) ==
    LET gate == Len(controller.__use) + Len(RouteOpts.use) + 1
        last == IF RouteOpts.schema # Nil THEN gate + 2 ELSE gate
    IN \A i \in {gate, last} :
          \E k \in EventsOf(rq, "next") : rq.log[k].idx = i

(***************************************************************************)
(* C14: a request that has passed the authorization gate and every         *)
(* validator of the route has had the controller method invoked once, and  *)
(* no request has it invoked more than once.                               *)
(***************************************************************************)
C14_MethodInvokedOnce ==
    \A r \in Requests :
        /\ Cardinality(MethodCalls(req[r])) <= 1
        /\ PassedAllChecks(req[r]) => Cardinality(MethodCalls(req[r])) = 1

\* an authorizer has approved, the schema has accepted the body, and the
\* controller method has been invoked and has returned
C14_Witness ==
    \E r \in Requests :
        /\ RouteOpts.schema # Nil
        /\ \E k \in EventsOf(req[r], "authorizer.result") :
              req[r].log[k].val = True
        /\ req[r].body \in ValidObjects
        /\ PassedAllChecks(req[r])
        /\ Cardinality(MethodCalls(req[r])) = 1
        /\ EventsOf(req[r], "handler.result") # {}

\* the calls of an 'authorize failed' handler, of a 'validation failed'
\* handler and of a serializer, and the returns of the controller method
\* that no serializer resolves for
Responses(rq) ==
    {k \in Positions(rq) :
        \/ rq.log[k].ev \in {"authorizeFailed", "validationFailed", "serializer"}
        \/ /\ rq.log[k].ev = "result"
           /\ rq.log[k - 1].ev = "handler.result"}

\* the calls of an error handler
ErrorResponses(rq) == EventsOf(rq, "errorHandler")

\* a middleware has ended the request itself, or the body parser has
\* reported an error to Express
EndedOutsideChain(rq) ==
    \/ rq.outcome = "next(err)"
    \/ \E k \in EventsOf(rq, "result") : StageKind(rq, k) \in {"__use", "use"}

C16_GlobalsReadAtResolution ==
    [][/\ \A r \in Requests :
             LET log == req'[r].log
                 OPTS == VALUE.AUTHORIZER_OPTIONS
             IN /\ \A k \in NewEvents(r, "stage") :
                      (/\ log[k].who = "authorizer"
                       /\ ~OPTS.isNil
                       /\ OPTS.authorize = Nil
                       /\ controller.__authorize = Nil) =>
                         IF authorizationHandler = Nil
                         THEN log[k + 1].ev = "next"
                         ELSE /\ log[k + 1].ev = "authorizer"
                              /\ log[k + 1].who = authorizationHandler
                /\ \A k \in NewEvents(r, "authorizeFailed") :
                      (/\ OPTS.onAuthorizeFailed = Nil
                       /\ controller.__authorizeFailed = Nil) =>
                         log[k].who = IF authorizationFailedHandler = Nil
                                      THEN "default"
                                      ELSE authorizationFailedHandler
                /\ \A k \in NewEvents(r, "validationFailed") :
                      Chain(req'[r])[log[k].idx].handler.opts.failedHandler
                         = Nil =>
                         log[k].who = IF objValidateFailedHandler = Nil
                                      THEN "default"
                                      ELSE objValidateFailedHandler
                /\ \A k \in NewEvents(r, "errorHandler") :
                      (/\ HandlerProperty(Chain(req'[r])[log[k].idx].handler.fn,
                                          "REQUEST_ERROR_HANDLER") = Nil
                       /\ controller.__error = Nil) =>
                         log[k].who = IF reqErrorHandler = Nil THEN "default"
                                      ELSE reqErrorHandler
                /\ \A k \in NewEvents(r, "handler.result") :
                      (/\ RouteOpts.serializer = Nil
                       /\ controller.__serialize = Nil) =>
                         IF resSerializer = Nil
                         THEN log[k + 1].ev = "result"
                         ELSE /\ log[k + 1].ev = "serializer"
                              /\ log[k + 1].who = resSerializer
       /\ globals' # globals =>
             /\ setterCalls' = setterCalls + 1
             /\ UNCHANGED <<registration, req>>
             /\ \E i \in 1..Len(globals) :
                   /\ globals'[i] \in NewHandlers
                   /\ \A j \in 1..Len(globals) \ {i} :
                         globals'[j] = globals[j]]_vars

\* the application had no error handler installed when the request
\* arrived, installed one while the request was in flight, and that handler
\* has been called for the error the request ran into afterwards
C16_Witness ==
    \E r \in Requests :
        /\ reqErrorHandler \in GlobalHandlers
        /\ setterCalls > 0
        /\ \E k \in EventsOf(req[r], "errorHandler") :
              /\ req[r].log[k].who = reqErrorHandler
              /\ req[r].log[k].val = Err(<<"handler">>)

(***************************************************************************)
(* Route paths.  A route is bound to the router of its controller, which   *)
(* is mounted at the root path of the controller: the route path "/" is    *)
(* the root, the route path "/foo" is root + "/foo".                       *)
(***************************************************************************)
RoutePathDone == call.fn = "createRouteInitializer" /\ call.done

\* the decorator names no path
NoPath(opts) ==
    \/ isNil(opts)
    \/ isJoi(opts)
    \/ opts.t = "object" /\ isNil(opts.path)

\* the path the decorator names
ExplicitPath(opts) == IF isRegExp(opts) THEN opts ELSE opts.path

Slashed(p) == [i \in 1..Len(p) |-> IF p[i] = path_sep THEN "/" ELSE p[i]]

RECURSIVE StripEnd(_)
StripEnd(p) ==
    IF p # <<>> /\ p[Len(p)] \in Whitespace \cup {"/"}
    THEN StripEnd(SubSeq(p, 1, Len(p) - 1))
    ELSE p

\* a path without the whitespace around it, the slash at its start and the
\* slashes at its end
Core(p) ==
    LET started == TrimStart(Slashed(p))
    IN StripEnd(IF startsWith(started, "/") THEN Tail(started) ELSE started)

\* r is the path p with a leading slash and no trailing slash
Canonical(p, r) ==
    /\ startsWith(r, "/")
    /\ r = <<"/">> \/ ~endsWith(r, "/")
    /\ Core(r) = Core(p)

\* the route path the contract names for a method and its decorator
ContractPath(name, opts, r) ==
    IF NoPath(opts)
    THEN /\ r.registered
         /\ r.path = Str(IF name = index THEN <<"/">> ELSE <<"/">> \o name)
    ELSE isString(ExplicitPath(opts)) =>
            /\ r.registered
            /\ isString(r.path)
            /\ Canonical(ExplicitPath(opts).s, r.path.s)

SortDone == call.fn \in {"sortMethods", "sortFiles"} /\ call.done

\* a precedes or equals b in the order of lower-cased, trimmed names
Ascending(a, b) ==
    ~LessThan(CodeUnits(normalizeName(b)), CodeUnits(normalizeName(a)))

SameNormalisedName(x, y) ==
    IF call.fn = "sortMethods" THEN normalizeName(x) = normalizeName(y)
    ELSE /\ normalizeName(x.dirname) = normalizeName(y.dirname)
         /\ normalizeName(basename(x)) = normalizeName(basename(y))

\* x may stand before y in the order the contract names
MayPrecede(x, y) ==
    IF call.fn = "sortMethods"
    THEN x = index \/ (y # index /\ Ascending(x, y))
    ELSE /\ Ascending(x.dirname, y.dirname)
         /\ x.dirname = y.dirname =>
               \/ x.name = index
               \/ y.name # index /\ Ascending(basename(x), basename(y))

(***************************************************************************)
(* C18: the sorted list holds the elements of the list that was sorted;    *)
(* of the methods of a controller 'index' comes first and the others       *)
(* follow ascending by lower-cased, trimmed name; the files come ascending *)
(* by normalised directory name and, in one directory, 'index' first and   *)
(* the others ascending by normalised file name; the comparison is total,  *)
(* transitive, and symmetric only for equal normalised names.              *)
(***************************************************************************)
C18_BindingOrder ==
    SortDone =>
        LET list == call.args.list
            sorted == call.result
            elements == {list[i] : i \in 1..Len(list)}
        IN /\ Len(sorted) = Len(list)
           /\ {sorted[i] : i \in 1..Len(sorted)} = elements
           /\ \A i, j \in 1..Len(sorted) :
                 i < j => MayPrecede(sorted[i], sorted[j])
           /\ \A x, y \in elements :
                 /\ compare(x, y) = -compare(y, x)
                 /\ compare(x, y) = 0 => SameNormalisedName(x, y)
           /\ \A x, y, z \in elements :
                 (compare(x, y) <= 0 /\ compare(y, z) <= 0) =>
                    compare(x, z) <= 0

\* the methods 'a', 'index' and 'I' of a controller are bound in the order
\* 'index', 'a', 'I'
C18_Witness ==
    /\ SortDone
    /\ call.args.list = << <<"a">>, index, <<"I">> >>
    /\ call.result = << index, <<"a">>, <<"I">> >>

(***************************************************************************)
(* Arguments of the decorators.                                            *)
(***************************************************************************)
BodyOptionsDone == call.fn = "toControllerRouteWithBodyOptions" /\ call.done

\* the k-th argument is the 'validation failed' handler when it is a
\* function, else it is the format and the next one is the handler
AfterSchema(opts, args, k) ==
    IF isFunction(Arg(args, k))
    THEN opts.onValidationFailed = Arg(args, k)
    ELSE /\ opts.format = Arg(args, k)
         /\ opts.onValidationFailed = Arg(args, k + 1)

C20_ValidatorSkipsOtherMethods ==
    [][\A r \in Requests :
          LET log == req'[r].log
              chain == Chain(req'[r])
          IN /\ \A k \in NewEvents(r, "stage") :
                   (/\ log[k].who = "validator"
                    /\ chain[log[k].idx].handler.skipMethod
                          # normalizeString(req'[r].method)) =>
                      /\ log[k + 1].ev = "next"
                      /\ log[k + 1].idx = log[k].idx
             /\ \A k \in NewEvents(r, "validationFailed") :
                   chain[log[k].idx].handler.skipMethod
                      = normalizeString(req'[r].method)]_vars

\* a GET request with a body the schema of POST rejects has passed the
\* validator of POST and has reached the controller method
C20_Witness ==
    \E r \in Requests :
        /\ req[r].method = "GET"
        /\ req[r].body = Obj(<<"bad">>)
        /\ \E k \in EventsOf(req[r], "stage") :
              /\ req[r].log[k].who = "validator"
              /\ Chain(req[r])[req[r].log[k].idx].handler.skipMethod = "post"
        /\ EventsOf(req[r], "validationFailed") = {}
        /\ EventsOf(req[r], "handler.result") # {}

(***************************************************************************)
(* C21: with several decorators of one HTTP verb that carry a schema,      *)
(* every route registered for the verb carries the validators of all the   *)
(* schemas in the order the decorators were applied; the controller method *)
(* is reached only with a body that passes every one of them, and after    *)
(* the first validator that fails nothing more of the chain runs.          *)
(***************************************************************************)
\* the schemas of the decorators for the verb m, in the order applied
SchemasOf(m) ==
    LET inits == SelectSeq(VALUE.INITIALIZE_ROUTE,
                           LAMBDA i : i.method = m /\ i.opts.schema # Nil)
    IN [k \in 1..Len(inits) |-> inits[k].opts.schema]

\* the schemas of the validators for the verb m in a chain, in its order
ValidatorSchemas(chain, m) ==
    LET vs == SelectSeq(chain, LAMBDA w : /\ w.handler.kind = "validator"
                                          /\ w.handler.skipMethod = m)
    IN [k \in 1..Len(vs) |-> vs[k].handler.opts.schema]

C21_AllValidatorsInOrder ==
    /\ \A l \in 1..Len(router) :
          (router[l].type = "route" /\ router[l].method = "post") =>
             ValidatorSchemas(router[l].chain, "post") = SchemasOf("post")
    /\ \A r \in Requests :
          LET rq == req[r]
              chain == Chain(rq)
          IN normalizeString(rq.method) = "post" =>
               /\ (\E k \in EventsOf(rq, "stage") : rq.log[k].who = "handler") =>
                     /\ isObjectLike(rq.body)
                     /\ \A i \in 1..Len(SchemasOf("post")) :
                           validate(SchemasOf("post")[i], rq.body).error = Nil
               /\ \A k \in EventsOf(rq, "validationFailed") :
                     /\ NothingRunsAfter(rq, k)
                     /\ \A i \in 1..(rq.log[k].idx - 1) :
                           chain[i].handler.kind = "validator" =>
                              /\ isObjectLike(rq.body)
                              /\ validate(chain[i].handler.opts.schema,
                                          rq.body).error = Nil

\* two POST decorators with schemas: the body has passed the validator of
\* the first schema and has failed the validator of the second, and the
\* request is over without the controller method
C21_Witness ==
    \E r \in Requests :
        /\ SchemasOf("post") = <<"schema", "strict">>
        /\ req[r].pc = "done"
        /\ Cardinality({k \in EventsOf(req[r], "stage") :
                           req[r].log[k].who = "validator"}) = 2
        /\ EventsOf(req[r], "validationFailed") # {}
        /\ \A k \in EventsOf(req[r], "stage") : req[r].log[k].who # "handler"

(***************************************************************************)
(* C22: a decorator of a method with a body that is called as              *)
(* (path, schema, ...) attaches the schema to the route, with a string as  *)
(* path and with a regular expression as path.                             *)
(***************************************************************************)
C22_SchemaAttachedForAnyPath ==
    (/\ BodyOptionsDone
     /\ Len(call.args.list) >= 2
     /\ isString(call.args.list[1]) \/ isRegExp(call.args.list[1])
     /\ isJoi(call.args.list[2])) =>
        LET bound == createRouteInitializer(<<"a">>, call.result)
        IN /\ bound.registered
           /\ bound.opts.schema = call.args.list[2]

(***************************************************************************)
(* C23: with stacked HTTP verb decorators, the error handler and the       *)
(* serializer of a route are resolved from the options of the decorator    *)
(* that defined the route; a further decorator does not change them.       *)
(***************************************************************************)
\* the options of the decorator that defined the route serving the request
ServingRouteOpts(rq) ==
    SelectSeq(VALUE.INITIALIZE_ROUTE,
              LAMBDA i : i.method = normalizeString(rq.method))[1].opts

C23_HandlersOfTheDefiningDecorator ==
    \A r \in Requests :
        LET rq == req[r]
            chain == Chain(rq)
        IN /\ \A k \in EventsOf(rq, "errorHandler") :
                 chain[rq.log[k].idx].handler.kind = "handler" =>
                    rq.log[k].who =
                        LET h == FirstNonNil(<< ServingRouteOpts(rq).onError,
                                                controller.__error,
                                                reqErrorHandler >>)
                        IN IF h = Nil THEN "default" ELSE h
           /\ \A k \in EventsOf(rq, "serializer") :
                 rq.log[k].who =
                     FirstNonNil(<< ServingRouteOpts(rq).serializer,
                                    controller.__serialize, resSerializer >>)
           /\ \A k \in EventsOf(rq, "handler.result") :
                 ServingRouteOpts(rq).serializer # Nil =>
                    \E j \in EventsOf(rq, "serializer") : j = k + 1

(***************************************************************************)
(* C27: on a route whose method carries no Authorize decorator the gate    *)
(* calls next() at once: no authorizer and no 'authorize failed' handler   *)
(* is invoked, whatever the controller's __authorize and the global        *)
(* authorize handler are.                                                  *)
(***************************************************************************)
C27_NoDecoratorNoAuthorizer ==
    [][\A r \in Requests :
          VALUE.AUTHORIZER_OPTIONS.isNil =>
             /\ NewEvents(r, "authorizer") = {}
             /\ NewEvents(r, "authorizeFailed") = {}
             /\ \A k \in NewEvents(r, "stage") :
                   req'[r].log[k].who = "authorizer" =>
                      /\ req'[r].log[k + 1].ev = "next"
                      /\ req'[r].log[k + 1].idx = req'[r].log[k].idx]_vars

\* the method is undecorated, the controller or the application has an
\* authorize handler, and the request has reached the controller method
C27_Witness ==
    \E r \in Requests :
        /\ VALUE.AUTHORIZER_OPTIONS.isNil
        /\ controller.__authorize # Nil \/ authorizationHandler # Nil
        /\ \E k \in EventsOf(req[r], "stage") : req[r].log[k].who = "authorizer"
        /\ \E k \in EventsOf(req[r], "stage") : req[r].log[k].who = "handler"
        /\ EventsOf(req[r], "authorizer") = {}

(***************************************************************************)
(* C24: one run of initControllers() creates one router for each root      *)
(* path of a controller and mounts it on the app once, when the first      *)
(* controller with that root path is met; every controller is constructed  *)
(* with the router of its root path, so controllers with the same root     *)
(* path share one router.                                                  *)
(***************************************************************************)
InitControllersDone == call.fn = "initControllers" /\ call.done

\* the root paths a list of controllers has, each at its first occurrence
RECURSIVE FirstOccurrences(_, _)
FirstOccurrences(controllers, seen) ==
    IF controllers = <<>> THEN <<>>
    ELSE (IF Head(controllers).ROOT_PATH \in seen THEN <<>>
          ELSE <<Head(controllers).ROOT_PATH>>)
         \o FirstOccurrences(Tail(controllers),
                             seen \cup {Head(controllers).ROOT_PATH})

C24_OneRouterPerRootPath ==
    InitControllersDone =>
        LET app == call.result.app
            controllers == call.result.controllers
        IN /\ \A i, j \in 1..Len(app) :
                 i # j => /\ app[i].path # app[j].path
                          /\ app[i].router # app[j].router
           /\ [i \in 1..Len(app) |-> app[i].path]
                 = FirstOccurrences(controllers, {})
           /\ \A c \in 1..Len(controllers) :
                 \E i \in 1..Len(app) :
                    /\ app[i].path = controllers[c].ROOT_PATH
                    /\ app[i].router = controllers[c].ROUTER
           /\ \A c, d \in 1..Len(controllers) :
                 (controllers[c].ROOT_PATH = controllers[d].ROOT_PATH)
                    <=> (controllers[c].ROUTER = controllers[d].ROUTER)

\* three controllers, two of them with the same root path from different
\* files: two routers are mounted
C24_Witness ==
    /\ InitControllersDone
    /\ Len(call.result.controllers) = 3
    /\ Len(call.result.app) = 2
    /\ \E c, d \in 1..3 :
          /\ c # d
          /\ call.result.controllers[c].file.name = <<"@", "a">>
          /\ call.result.controllers[d].file.name = <<":", "a">>
          /\ call.result.controllers[c].ROUTER = call.result.controllers[d].ROUTER

(***************************************************************************)
(* C28: with two controllers on one router, the __use middlewares of a     *)
(* controller run for the requests to the routes of that controller only:  *)
(* a request to a route of the one controller starts no __use middleware   *)
(* of the other.                                                           *)
(***************************************************************************)
C28_UseOfTheOwnControllerOnly ==
    \A r \in DOMAIN req :
        \A k \in EventsOf(req[r], "stage") :
            req[r].log[k].who = "__use" =>
                \E i \in 1..Len(controller.__use) :
                    req[r].log[k].val = Str(<<controller.__use[i].name>>)

(***************************************************************************)
(* C25: the state of an authorization belongs to one request.  With two    *)
(* requests in flight on one route, the 'authorize failed' handler of a    *)
(* request gets the result and the reason of the authorizer call of that   *)
(* request, the request goes on or fails by that result alone, and a step  *)
(* of one request changes nothing of the other.                            *)
(***************************************************************************)
C25_AuthorizationPerRequest ==
    [][\A r \in DOMAIN req :
          LET log == req'[r].log
          IN /\ \A k \in NewEvents(r, "authorizer.result") :
                   IF isAuthorized(toAuthorizeResult(log[k].val))
                   THEN /\ log[k + 1].ev = "next"
                        /\ NewEvents(r, "authorizeFailed") = {}
                   ELSE /\ log[k + 1].ev = "authorizeFailed"
                        /\ log[k + 1].val = toAuthorizeResult(log[k].val)
                        /\ log[k + 1].val2 = log[k].val2
             /\ \A k \in NewEvents(r, "authorizeFailed") :
                   log[k - 1].ev = "authorizer.result"
             /\ req'[r] # req[r] =>
                   \A q \in DOMAIN req \ {r} : req'[q] = req[q]]_vars

\* the two requests have had different results and reasons from the
\* authorizer: one is denied with a reason and is with its 'authorize
\* failed' handler, the other was approved after it and has gone on
C25_Witness ==
    \E r, q \in DOMAIN req :
        /\ r # q
        /\ Awaits(r, "authorizeFailed")
        /\ \E k \in EventsOf(req[r], "authorizeFailed") :
              /\ req[r].log[k].val = Str(<<" ", "denied", " ">>)
              /\ req[r].log[k].val2 = Str(<<"why">>)
        /\ \E k \in EventsOf(req[q], "authorizer.result") :
              /\ req[q].log[k].val = True
              /\ req[q].log[k + 1].ev = "next"

(***************************************************************************)
(* C26: when every user function a request awaits settles, the request     *)
(* reaches its end.  As long as a function has not settled, nothing more   *)
(* runs for that request, while the other request is not held up: what it  *)
(* awaits can settle, and a new request can enter the chain.               *)
(***************************************************************************)
C26_SettlingRequestsEnd ==
    /\ \A r \in {1, 2} : (req[r].pc = "await") ~> (req[r].pc = "done")
    /\ [](\A r \in {1, 2} :
            /\ req[r].pc = "await" => ENABLED Settles(r)
            /\ req[r].pc = "new" => ENABLED Arrive(r))
    /\ [][\A r \in {1, 2} :
            (req[r].pc = "await" /\ req'[r] # req[r]) => Settles(r)]_vars

\* one request is at its end with a response of the controller method while
\* the other, which arrived first, still awaits its authorizer
C26_Witness ==
    \E r, q \in DOMAIN req :
        /\ r # q
        /\ Awaits(r, "authorizer")
        /\ Len(req[r].log) > 0
        /\ req[q].pc = "done"
        /\ EventsOf(req[q], "handler.result") # {}

(***************************************************************************)
(* C29: serializeForJSON() of a readable stream resolves to the base64     *)
(* encoding of all the chunks the stream has emitted before 'end', in the  *)
(* order of their arrival; the read settles once, with the outcome of      *)
(* whichever of 'error' and 'end' has come first.                          *)
(***************************************************************************)
\* the bytes a base64 text stands for
RECURSIVE decode(_)
decode(t) ==
    IF Len(t) < 4 THEN <<>>
    ELSE LET b1 == t[1] * 4 + (t[2] \div 16)
             b2 == (t[2] % 16) * 16 + (t[3] \div 4)
             b3 == (t[3] % 4) * 64 + t[4]
         IN IF t[3] = 64 THEN <<b1>>
            ELSE IF t[4] = 64 THEN <<b1, b2>>
            ELSE <<b1, b2, b3>> \o decode(SubSeq(t, 5, Len(t)))

\* the chunks of a sequence of events, one after the other
RECURSIVE ChunksOf(_)
ChunksOf(events) ==
    IF events = <<>> THEN <<>>
    ELSE Head(events).chunk \o ChunksOf(Tail(events))

C29_StreamAsBase64 ==
    call.fn = "readAll" =>
        LET emitted == SubSeq(call.args.events, 1, call.result.i)
            ends == {k \in 1..Len(emitted) : emitted[k].type \in {"error", "end"}}
            first == CHOOSE k \in ends : \A j \in ends : k <= j
        IN IF ends = {} THEN call.result.promise = "pending"
           ELSE IF emitted[first].type = "error"
                THEN call.result.promise = "rejected"
                ELSE /\ call.result.promise = "resolved"
                     /\ call.done =>
                           decode(call.result.serialized)
                              = ChunksOf(SubSeq(emitted, 1, first - 1))

\* the first of 'error' and 'end' decides the outcome of the read for good
C29_SettlesOnce ==
    [][call.fn = "readAll" /\ call.result.promise # "pending" =>
          /\ call'.result.promise = call.result.promise
          /\ call'.result.value = call.result.value]_vars

(***************************************************************************)
(* C30: serializeForJSON() comes to an end for every value, also for a     *)
(* value that contains itself: the calls of serializeForJSONInner() are    *)
(* never nested deeper than the depths 0 to 64, and no array is being      *)
(* serialised inside its own serialisation.                                *)
(***************************************************************************)
C30_RecursionIsBounded ==
    call.fn = "serializeForJSON" =>
        LET stack == call.result.stack
        IN /\ Len(stack) <= TOO_DEEP + 2
           /\ \A i, j \in 1..Len(stack) :
                 (/\ i < j
                  /\ stack[i].val = stack[j].val) =>
                    call.args.graph[stack[i].val].kind # "array"

====
